---- MODULE Spec2Model ----
(***************************************************************************)
(* pyPhyNR: the resource grid and its allocation rule                      *)
(* (core/resources.py), the channel placement indices                      *)
(* (core/channels/base.py, pdcch.py, pdsch.py), the Gold-sequence          *)
(* reference-signal generator (core/channels/dmrs.py), the OFDM parameters *)
(* (waveforms/ofdm.py), the bandwidth table and carrier configuration      *)
(* (core/definitions.py, core/carrier.py), the waveform generator         *)
(* (core/waveform.py, utils/resample.py), the random QAM symbols           *)
(* (core/modulation.py), the construction of PDSCH and PDCCH data arrays   *)
(* and two concurrent callers of add_channel.                              *)
(***************************************************************************)
EXTENDS Integers, Sequences, FiniteSets, TLC

VARIABLES
    grid,      \* ResourceGrid.grid: (subcarrier, symbol) -> ResourceElement
    chans,     \* the channel objects the REs refer to, in order of allocation
    last,      \* the channel handed to the last add_channel call
    result,    \* how the last add_channel call ended: "none", "ok" or "error"
    error,     \* the exception the last call raised (NoError when it returned)
    ncalls,    \* number of add_channel calls made so far
    idx,       \* index calculation: the placement under test and its indices
    gold,      \* Gold-sequence generation: inputs, registers and outputs
    dmrs,      \* PDSCH DMRS generation: inputs, seed and requested length
    pbch,      \* PBCH DMRS generation: inputs, seed and requested length
    mapq,      \* map_to_qpsk: the bit sequence and what the call gave
    ofdm,      \* calculate_ofdm_params: the arguments and what the call gave
    carrier,   \* carrier configuration: the arguments and what the call gave
    wave,      \* frame waveform: the carrier and the two sample counts
    sym,       \* generate_ofdm_symbol: the inputs and the samples returned
    frame,     \* frame waveform: the carrier and the symbols put out so far
    qam,       \* generate_random_symbols: the integers drawn and the symbols returned
    shared,    \* PDSCH construction: the arguments, the DMRS call and the reads
    ctrl,      \* PDCCH construction: the arguments and the writes into the data array
    race,      \* two concurrent add_channel calls: the lock and each call's position
    proj       \* projection read: the last channel_types / values array read back

vars == <<grid, chans, last, result, error, ncalls, idx, gold, dmrs,
          pbch, mapq, ofdm, carrier, wave, sym, frame,
          qam,
          shared,
          ctrl,
          race,
          proj>>

\* the variables of the waveform side of the library
laterVars == <<pbch, mapq, ofdm, carrier, wave, sym>>

gridVars == <<grid, chans, last, result, error, ncalls>>

\* the variables of the studies of single operations added last
finalVars == <<frame, qam, shared, ctrl, race, proj>>

----------------------------------------------------------------------------
(* Program constants *)

N_SC_PER_RB == 12

N_SYMBOLS_PER_SLOT == 14

Nc == 1600

\* PDCCH DMRS positions within each REG (pdcch.py)
DMRS_POSITIONS == <<1, 5, 9>>

\* PDSCH DMRS positions handed over by the builder (signal_builder.py)
TypeAPositions == <<0, 2, 4, 6, 8, 10>>

----------------------------------------------------------------------------
(* Bounds of the model *)

\* resource blocks of the grid
NRB == 2

\* slots of the grid
NumSlots == 2

\* add_channel calls explored
MaxCalls == 2

\* index calculation: largest start_rb, num_rb, start_symbol, num_symbols and
\* slot index tried
MaxStartRb == 2

MaxNumRb == 2

MaxStartSymbol == 2

MaxNumSymbols == 2

MaxSlot == 2

\* Gold sequence: largest output length tried
MaxGoldLength == 9

\* PDSCH DMRS generation: largest slot index and number of RBs tried
MaxDmrsSlot == 1

MaxDmrsRb == 1

----------------------------------------------------------------------------
(* Helpers over sequences *)

Range(s) == {s[k] : k \in DOMAIN s}

SeqMin(s) == CHOOSE m \in Range(s) : \A x \in Range(s) : m <= x

\* Python range(a, b) as an ordered list
PyRange(a, b) == [k \in 1..(IF b > a THEN b - a ELSE 0) |-> a + k - 1]

InSeq(x, s) == \E k \in DOMAIN s : s[k] = x

----------------------------------------------------------------------------
(* Physical channels *)

\* PhysicalChannel.__post_init__: an empty slot pattern defaults to slot 0
DefaultSlotPattern(sp) == IF sp = <<>> THEN <<0>> ELSE sp

\* PhysicalChannel.calculate_indices: freq_indices
BaseFreqIndices(start_rb, num_rb) ==
    LET start_sc == start_rb * N_SC_PER_RB
        end_sc   == start_sc + num_rb * N_SC_PER_RB
    IN  PyRange(start_sc, end_sc)

\* mutant: time indices that leave out the slot offset
TimeIndices_NoSlotOffset(start_symbol, num_symbols, slot_pattern) ==
    [slot \in Range(slot_pattern) |->
        PyRange(start_symbol, start_symbol + num_symbols)]

\* calculate_indices (base class and PDCCH alike): time_indices
TimeIndices(start_symbol, num_symbols, slot_pattern) ==
    [slot \in Range(slot_pattern) |->
        LET start_sym == start_symbol + slot * N_SYMBOLS_PER_SLOT
            end_sym   == start_sym + num_symbols
        IN  PyRange(start_sym, end_sym)]

\* PDCCH.calculate_indices: freq_indices, one resource block after the other
RECURSIVE PdcchScIndices(_, _, _)
PdcchScIndices(start_rb, num_rb, rb) ==
    IF rb >= num_rb THEN <<>>
    ELSE LET rb_start == (start_rb + rb) * N_SC_PER_RB
         IN  [k \in 1..N_SC_PER_RB |-> rb_start + (k - 1)]
             \o PdcchScIndices(start_rb, num_rb, rb + 1)

PdcchFreqIndices(start_rb, num_rb) == PdcchScIndices(start_rb, num_rb, 0)

\* The channel object after construction
MakeChannel(type, start_rb, num_rb, start_symbol, num_symbols, sp, has_rs, positions) ==
    LET slot_pattern == DefaultSlotPattern(sp)
    IN  [channel_type |-> type,
         start_rb     |-> start_rb,
         num_rb       |-> num_rb,
         start_symbol |-> start_symbol,
         num_symbols  |-> num_symbols,
         slot_pattern |-> slot_pattern,
         has_rs       |-> has_rs,
         positions    |-> positions,
         freq_indices |-> IF type = "PDCCH"
                          THEN PdcchFreqIndices(start_rb, num_rb)
                          ELSE BaseFreqIndices(start_rb, num_rb),
         time_indices |-> TimeIndices(start_symbol, num_symbols, slot_pattern)]

\* PDCCH.__init__: reference_signal = DMRS(positions=DMRS_POSITIONS)
PDCCH(start_rb, num_rb, start_symbol, num_symbols, sp) ==
    MakeChannel("PDCCH", start_rb, num_rb, start_symbol, num_symbols, sp,
                TRUE, DMRS_POSITIONS)

\* PDSCH.__init__: reference_signal = PDSCH_DMRS(positions=dmrs_positions)
PDSCH(start_rb, num_rb, start_symbol, num_symbols, sp, dmrs_positions) ==
    MakeChannel("PDSCH", start_rb, num_rb, start_symbol, num_symbols, sp,
                TRUE, dmrs_positions)

\* CORESET: reserves its region and interleaves reference-signal REs at the
\* intra-RB offsets {1,5,9}
CORESET(start_rb, num_rb, start_symbol, num_symbols, sp) ==
    MakeChannel("CORESET", start_rb, num_rb, start_symbol, num_symbols, sp,
                TRUE, DMRS_POSITIONS)

\* PhysicalChannel(channel_type, ...) built directly: reference_signal = None
PhysicalChannel(type, start_rb, num_rb, start_symbol, num_symbols, sp) ==
    MakeChannel(type, start_rb, num_rb, start_symbol, num_symbols, sp,
                FALSE, <<>>)

----------------------------------------------------------------------------
(* Resource elements and the grid *)

n_subcarriers == NRB * N_SC_PER_RB

n_symbols == NumSlots * N_SYMBOLS_PER_SLOT

GridCells == (0..(n_subcarriers - 1)) \X (0..(n_symbols - 1))

\* ResourceElement.__init__: channel = None (0), re_idx = 0, sym_idx = 0
EmptyRE == [channel |-> 0, re_idx |-> 0, sym_idx |-> 0]

\* ResourceGrid.__post_init__
EmptyGrid == [p \in GridCells |-> EmptyRE]

\* ResourceElement.channel_type; tbl is the table of channel objects
channel_type(re, tbl) ==
    IF re.channel = 0 THEN "EMPTY"
    ELSE LET ch == tbl[re.channel]
         IN  IF ch.has_rs /\ InSeq(re.re_idx % 12, ch.positions)
             THEN "DL_DMRS"
             ELSE ch.channel_type

\* mutant: any channel may be laid over a CORESET
can_add_channel_AnyOverCoreset(re, new_channel, tbl) ==
    \/ re.channel = 0
    \/ channel_type(re, tbl) = "CORESET"

\* mutant: every RE accepts every channel
can_add_channel_Always(re, new_channel, tbl) == TRUE

\* ResourceElement.can_add_channel
can_add_channel(re, new_channel, tbl) ==
    \/ re.channel = 0
    \/ /\ new_channel.channel_type = "PDCCH"
       /\ channel_type(re, tbl) = "CORESET"

NoError == [kind |-> "none"]

\* mutant: the message names the subcarrier instead of the resource block
ConflictError_Subcarrier(new_channel, i, j, existing_type) ==
    [kind     |-> "ValueError",
     adding   |-> new_channel.channel_type,
     rb       |-> i,
     symbol   |-> j,
     existing |-> existing_type]

\* The ValueError add_channel raises, with the fields of its message
ConflictError(new_channel, i, j, existing_type) ==
    [kind     |-> "ValueError",
     adding   |-> new_channel.channel_type,
     rb       |-> i \div 12,
     symbol   |-> j,
     existing |-> existing_type]

\* mutant: the RE keeps the grid indices instead of the local offsets
WrittenRE_Absolute(id, i, j, fmin, tmin) ==
    [channel |-> id, re_idx |-> i, sym_idx |-> j]

\* What the write loop of add_channel leaves in the RE at (i, j)
WrittenRE(id, i, j, fmin, tmin) ==
    [channel |-> id, re_idx |-> i - fmin, sym_idx |-> j - tmin]

WriteCells(g, id, fset, tset, fmin, tmin) ==
    [p \in fset \X tset |-> WrittenRE(id, p[1], p[2], fmin, tmin)] @@ g

\* mutant: the write loop covers every subcarrier of the slot's symbols
WriteSlot_WholeSymbols(g, channel, id, time_indices) ==
    WriteCells(g, id, 0..(n_subcarriers - 1), Range(time_indices),
               SeqMin(channel.freq_indices), SeqMin(time_indices))

\* The write loop of add_channel for one slot
WriteSlot(g, channel, id, time_indices) ==
    WriteCells(g, id, Range(channel.freq_indices), Range(time_indices),
               SeqMin(channel.freq_indices), SeqMin(time_indices))

\* mutant: the conflict loop finds no RE that refuses the channel
Refusing_Nothing(g, channel, tbl, time_indices) == {}

\* The conflict loop of add_channel for one slot: the positions (a, b) in
\* freq_indices x time_indices whose RE refuses the channel
Refusing(g, channel, tbl, time_indices) ==
    {ab \in (DOMAIN channel.freq_indices) \X (DOMAIN time_indices) :
        ~can_add_channel(g[<<channel.freq_indices[ab[1]], time_indices[ab[2]]>>],
                         channel, tbl)}

\* the first refusing position in loop order (i outer, j inner)
FirstRefusing(bad) ==
    CHOOSE ab \in bad : \A cd \in bad :
        ab[1] < cd[1] \/ (ab[1] = cd[1] /\ ab[2] <= cd[2])

\* ResourceGrid.add_channel from the k-th slot of the pattern on: the grid it
\* leaves and the exception it raises, if any
RECURSIVE add_channel_from(_, _, _, _, _)
add_channel_from(g, channel, id, tbl, k) ==
    IF k > Len(channel.slot_pattern) THEN [grid |-> g, error |-> NoError]
    ELSE LET slot         == channel.slot_pattern[k]
             time_indices == channel.time_indices[slot]
             bad          == Refusing(g, channel, tbl, time_indices)
         IN  IF bad # {}
             THEN LET ab == FirstRefusing(bad)
                      i  == channel.freq_indices[ab[1]]
                      j  == time_indices[ab[2]]
                  IN  [grid  |-> g,
                       error |-> ConflictError(channel, i, j,
                                               channel_type(g[<<i, j>>], tbl))]
             ELSE add_channel_from(WriteSlot(g, channel, id, time_indices),
                                   channel, id, tbl, k + 1)

\* ResourceGrid.add_channel
add_channel(g, channel, tbl) ==
    add_channel_from(g, channel, Len(tbl) + 1, Append(tbl, channel), 1)

----------------------------------------------------------------------------
(* Channel data arrays and the grid's projections *)

\* DATA_POSITIONS of pdcch.py: the offsets of an RB that are no DMRS position
DATA_POSITIONS == SelectSeq(PyRange(0, N_SC_PER_RB), LAMBDA i : ~InSeq(i, DMRS_POSITIONS))

\* position of x in the list s (list.index / enumerate)
IndexOf(x, s) == (CHOOSE k \in DOMAIN s : s[k] = x) - 1

\* PDCCH._generate_data: the cell of dmrs_data or pdcch_data copied to data[r, c]
PdcchData(ch, r, c) ==
    LET rb  == r \div N_SC_PER_RB
        pos == r % N_SC_PER_RB
    IN  IF InSeq(pos, ch.positions)
        THEN [array |-> "dmrs_data",
              row   |-> rb * Len(ch.positions) + IndexOf(pos, ch.positions),
              col   |-> c]
        ELSE [array |-> "pdcch_data",
              row   |-> rb * Len(DATA_POSITIONS) + IndexOf(pos, DATA_POSITIONS),
              col   |-> c]

\* PDSCH._generate_data: does data[r, c] hold a DMRS value
PdschIsDmrs(ch, r, c) ==
    /\ ch.has_rs
    /\ InSeq(c, ch.positions)
    /\ c < ch.num_symbols
    /\ (r % N_SC_PER_RB) % 2 = 0

\* PDSCH._generate_data: the channel_types array of the PDSCH
PdschChannelTypes(ch, r, c) ==
    IF PdschIsDmrs(ch, r, c) THEN "DL_DMRS" ELSE ch.channel_type

\* PDSCH._generate_data: the cell of dmrs_data or pdsch_data copied to data[r, c]
PdschData(ch, r, c) ==
    LET rb == r \div N_SC_PER_RB
        sc == r % N_SC_PER_RB
    IN  IF PdschIsDmrs(ch, r, c)
        THEN [array |-> "dmrs_data",
              row   |-> rb * (N_SC_PER_RB \div 2) + sc \div 2,
              col   |-> 0]
        ELSE [array |-> "pdsch_data", row |-> rb * N_SC_PER_RB + sc, col |-> c]

\* CORESET data: base data over the footprint, reference-signal values at the
\* reserved offsets
CoresetData(ch, r, c) ==
    IF InSeq(r % N_SC_PER_RB, ch.positions)
    THEN [array |-> "dmrs_data", row |-> r, col |-> c]
    ELSE [array |-> "coreset_data", row |-> r, col |-> c]

\* channel.data[r, c]
ChannelData(ch, r, c) ==
    IF ~(r \in 0..(ch.num_rb * N_SC_PER_RB - 1) /\ c \in 0..(ch.num_symbols - 1))
    THEN [array |-> "IndexError"]
    ELSE IF ~ch.has_rs THEN [array |-> "unset"]
    ELSE IF ch.channel_type = "PDCCH" THEN PdcchData(ch, r, c)
    ELSE IF ch.channel_type = "PDSCH" THEN PdschData(ch, r, c)
    ELSE CoresetData(ch, r, c)

\* ResourceElement.data: 0+0j for an empty RE, else the owner's data cell
re_data(re, tbl) ==
    IF re.channel = 0 THEN [array |-> "zero"]
    ELSE [owner |-> re.channel,
          cell  |-> ChannelData(tbl[re.channel], re.re_idx, re.sym_idx)]

\* ResourceGrid.channel_types
channel_types == [p \in DOMAIN grid |-> channel_type(grid[p], chans)]

\* ResourceGrid.values
values == [p \in DOMAIN grid |-> re_data(grid[p], chans)]

----------------------------------------------------------------------------
(* Allocation: the calls explored *)

\* (start_rb, num_rb) of the channels handed to the grid
Placements == {<<0, 2>>, <<1, 1>>}

\* (start_symbol, num_symbols) of the channels handed to the grid
Allotments == {<<0, 2>>, <<1, 2>>}

\* slot patterns of the channels handed to the grid
SlotPatterns == {<<0>>, <<1>>, <<0, 1>>}

NoChannel == [channel_type |-> "EMPTY"]

NoIdx == [pc |-> "off"]

NoGold == [pc |-> "off"]

NoDmrs == [pc |-> "off"]

Off == [pc |-> "off"]

LaterOff ==
    /\ pbch = Off
    /\ mapq = Off
    /\ ofdm = Off
    /\ carrier = Off
    /\ wave = Off
    /\ sym = Off

FinalOff ==
    /\ frame = Off
    /\ qam = Off
    /\ shared = Off
    /\ ctrl = Off
    /\ race = Off
    /\ proj = Off

Init ==
    /\ grid = EmptyGrid
    /\ chans = <<>>
    /\ last = NoChannel
    /\ result = "none"
    /\ error = NoError
    /\ ncalls = 0
    /\ idx = NoIdx
    /\ gold = NoGold
    /\ dmrs = NoDmrs
    /\ LaterOff
    /\ FinalOff

\* grid.add_channel(channel): the call as a whole
Allocate(channel) ==
    /\ ncalls < MaxCalls
    /\ \E ch \in {channel} : \E r \in {add_channel(grid, ch, chans)} :
        /\ ncalls' = ncalls + 1
        /\ last' = ch
        /\ grid' = r.grid
        /\ chans' = IF r.grid = grid THEN chans ELSE Append(chans, ch)
        /\ error' = r.error
        /\ result' = IF r.error = NoError THEN "ok" ELSE "error"
        /\ UNCHANGED <<idx, gold, dmrs, laterVars, finalVars>>

AddCoreset ==
    \E rb \in Placements, sy \in Allotments, sp \in SlotPatterns :
        Allocate(CORESET(rb[1], rb[2], sy[1], sy[2], sp))

AddPdcch ==
    \E rb \in Placements, sy \in Allotments, sp \in SlotPatterns :
        Allocate(PDCCH(rb[1], rb[2], sy[1], sy[2], sp))

AddPdsch ==
    \E rb \in Placements, sy \in Allotments, sp \in SlotPatterns :
        Allocate(PDSCH(rb[1], rb[2], sy[1], sy[2], sp, TypeAPositions))

AddRegion ==
    \E rb \in Placements, sy \in Allotments, sp \in SlotPatterns :
        Allocate(PhysicalChannel("CORESET", rb[1], rb[2], sy[1], sy[2], sp))

Next ==
    \/ AddCoreset
    \/ AddPdcch
    \/ AddPdsch
    \/ AddRegion

Spec == Init /\ [][Next]_vars

----------------------------------------------------------------------------
(* Index calculation on its own: every placement within the bounds *)

\* slot patterns: one slot, or two different slots in either order
IdxSlotPatterns ==
    {<<a>> : a \in 0..MaxSlot}
    \cup {<<ab[1], ab[2]>> :
            ab \in {cd \in (0..MaxSlot) \X (0..MaxSlot) : cd[1] # cd[2]}}

IdxInputs ==
    [pc           : {"new"},
     variant      : {"PhysicalChannel", "PDCCH"},
     start_rb     : 0..MaxStartRb,
     num_rb       : 1..MaxNumRb,
     start_symbol : 0..MaxStartSymbol,
     num_symbols  : 1..MaxNumSymbols,
     slot_pattern : IdxSlotPatterns]

GridOff ==
    /\ grid = <<>>
    /\ chans = <<>>
    /\ last = NoChannel
    /\ result = "none"
    /\ error = NoError
    /\ ncalls = 0

IdxInit ==
    /\ GridOff
    /\ idx \in IdxInputs
    /\ gold = NoGold
    /\ dmrs = NoDmrs
    /\ LaterOff
    /\ FinalOff

\* the indices the constructed channel holds
Calculated(ch) ==
    [pc           |-> "done",
     variant      |-> idx.variant,
     start_rb     |-> idx.start_rb,
     num_rb       |-> idx.num_rb,
     start_symbol |-> idx.start_symbol,
     num_symbols  |-> idx.num_symbols,
     slot_pattern |-> idx.slot_pattern,
     freq_indices |-> ch.freq_indices,
     time_indices |-> ch.time_indices]

\* PhysicalChannel.__post_init__ -> PhysicalChannel.calculate_indices
CalculateIndicesBase ==
    /\ idx.pc = "new"
    /\ idx.variant = "PhysicalChannel"
    /\ idx' = Calculated(PhysicalChannel("PDSCH", idx.start_rb, idx.num_rb,
                    idx.start_symbol, idx.num_symbols, idx.slot_pattern))
    /\ UNCHANGED <<gridVars, gold, dmrs, laterVars, finalVars>>

\* PhysicalChannel.__post_init__ -> PDCCH.calculate_indices
CalculateIndicesPdcch ==
    /\ idx.pc = "new"
    /\ idx.variant = "PDCCH"
    /\ idx' = Calculated(PDCCH(idx.start_rb, idx.num_rb,
                    idx.start_symbol, idx.num_symbols, idx.slot_pattern))
    /\ UNCHANGED <<gridVars, gold, dmrs, laterVars, finalVars>>

IdxNext ==
    \/ CalculateIndicesBase
    \/ CalculateIndicesPdcch

SpecIdx == IdxInit /\ [][IdxNext]_vars

----------------------------------------------------------------------------
(* The Gold-sequence generator *)

\* (c_init >> i) & 1
Bit(c_init, i) == (c_init \div (2 ^ i)) % 2

\* x1 = zeros(31); x1[0] = 1
X1Init == [k \in 1..31 |-> IF k = 1 THEN 1 ELSE 0]

\* mutant: the seed's bits are taken one position too high
X2Init_Shifted(c_init) ==
    [k \in 1..31 |-> IF k = 31 THEN 0 ELSE Bit(c_init, k)]

\* x2[i] = (c_init >> i) & 1 for i in range(31)
X2Init(c_init) == [k \in 1..31 |-> Bit(c_init, k - 1)]

\* the bit the x1 loop appends at index n (lists are 0-based in the source)
X1New(x1, n) == (x1[(n - 28) + 1] + x1[(n - 31) + 1]) % 2

\* mutant: the x2 feedback leaves out the tap x2(n+1)
X2New_ThreeTaps(x2, n) ==
    (x2[(n - 28) + 1] + x2[(n - 29) + 1] + x2[(n - 31) + 1]) % 2

\* the bit the x2 loop appends at index n
X2New(x2, n) ==
    (x2[(n - 28) + 1] + x2[(n - 29) + 1] + x2[(n - 30) + 1] + x2[(n - 31) + 1]) % 2

\* for n in range(a, b): x1 = append(x1, x1_new); the iterations run in
\* ascending n: the first half of the range is run to its end, then the
\* second half on its result (this keeps the nesting of the evaluation flat)
RECURSIVE X1Loop(_, _, _)
X1Loop(x1, a, b) ==
    IF a >= b THEN x1
    ELSE IF b = a + 1 THEN Append(x1, X1New(x1, a))
    ELSE CHOOSE r \in {X1Loop(h, (a + b) \div 2, b) :
                          h \in {X1Loop(x1, a, (a + b) \div 2)}} : TRUE

\* for n in range(a, b): x2 = append(x2, x2_new)
RECURSIVE X2Loop(_, _, _)
X2Loop(x2, a, b) ==
    IF a >= b THEN x2
    ELSE IF b = a + 1 THEN Append(x2, X2New(x2, a))
    ELSE CHOOSE r \in {X2Loop(h, (a + b) \div 2, b) :
                          h \in {X2Loop(x2, a, (a + b) \div 2)}} : TRUE

\* numpy x[a:b]
Slice(x, a, b) ==
    LET hi == IF b < Len(x) THEN b ELSE Len(x)
    IN  [k \in 1..(IF hi > a THEN hi - a ELSE 0) |-> x[a + k]]

\* (x1[Nc:Nc+length] + x2[Nc:Nc+length]) % 2
GoldSeq(x1, x2, length) ==
    LET s1 == Slice(x1, Nc, Nc + length)
        s2 == Slice(x2, Nc, Nc + length)
    IN  [k \in DOMAIN s1 |-> (s1[k] + s2[k]) % 2]

\* generate_gold_sequence(c_init, length): the two registers and the output
generate_gold_sequence(c_init, length) ==
    LET total_length == Nc + length
        x1 == X1Loop(X1Init, 31, total_length)
        x2 == X2Loop(X2Init(c_init), 31, total_length)
    IN  [x1 |-> x1, x2 |-> x2, gold_seq |-> GoldSeq(x1, x2, length)]

\* seeds tried: all zero, all one, and a mixed pattern
GoldSeeds == {0, 2147483647, 305419896}

\* output lengths tried: none, one bit, eight bits, and nine bits or more
GoldLengths == {0, 1, 8} \cup (9..MaxGoldLength)

\* c_init with bit i flipped
FlipBit(c_init, i) ==
    IF Bit(c_init, i) = 1 THEN c_init - 2 ^ i ELSE c_init + 2 ^ i

GoldInputs ==
    [pc : {"new"}, c_init : GoldSeeds, bit : 0..30, length : GoldLengths]

GoldInit ==
    /\ GridOff
    /\ idx = NoIdx
    /\ gold \in GoldInputs
    /\ dmrs = NoDmrs
    /\ LaterOff
    /\ FinalOff

\* first call: generate_gold_sequence(c_init, length)
GenerateGold ==
    /\ gold.pc = "new"
    /\ \E r \in {generate_gold_sequence(gold.c_init, gold.length)} :
        gold' = [pc |-> "first", c_init |-> gold.c_init, bit |-> gold.bit,
                 length |-> gold.length,
                 x1 |-> r.x1, x2 |-> r.x2, gold_seq |-> r.gold_seq]
    /\ UNCHANGED <<gridVars, idx, dmrs, laterVars, finalVars>>

\* second call: the same seed with one bit flipped, the same length
GenerateGoldFlipped ==
    /\ gold.pc = "first"
    /\ \E r \in {generate_gold_sequence(FlipBit(gold.c_init, gold.bit), gold.length)} :
        gold' = [pc |-> "second", c_init |-> gold.c_init, bit |-> gold.bit,
                 length |-> gold.length,
                 gold_seq |-> gold.gold_seq, flipped_seq |-> r.gold_seq]
    /\ UNCHANGED <<gridVars, idx, dmrs, laterVars, finalVars>>

GoldNext ==
    \/ GenerateGold
    \/ GenerateGoldFlipped

SpecGold == GoldInit /\ [][GoldNext]_vars

----------------------------------------------------------------------------
(* PDSCH DMRS generation *)

\* the largest 31-bit value, 2**31 - 1
Max31 == 2147483647

\* (a + b) % 2**31 for a, b in [0, 2**31), without leaving 32-bit integers
AddMod31(a, b) == IF a > Max31 - b THEN (a - (Max31 - b)) - 1 ELSE a + b

\* (2**k * v) % 2**31: the low 31 - k bits of v, moved up by k
ShlMod31(v, k) == (v % (2 ^ (31 - k))) * (2 ^ k)

\* mutant: the symbol count of the seed leaves out the + 1
PdschCInit_NoPlusOne(cell_id, slot_idx, symbol_idx) ==
    AddMod31(ShlMod31((14 * slot_idx + symbol_idx) * (2 * cell_id + 1), 17),
             2 * cell_id)

\* c_init = (2**17 * (14*slot_idx + symbol_idx + 1) * (2*cell_id + 1)
\*           + 2*cell_id) % (2**31)
PdschCInit(cell_id, slot_idx, symbol_idx) ==
    AddMod31(ShlMod31((14 * slot_idx + symbol_idx + 1) * (2 * cell_id + 1), 17),
             2 * cell_id)

\* mutant: the two bits of a pair change places
map_to_qpsk_Swapped(binary_seq) ==
    IF Len(binary_seq) % 2 # 0 THEN [raised |-> "ValueError"]
    ELSE [raised |-> "none",
          symbols |-> [k \in 1..(Len(binary_seq) \div 2) |->
                          <<1 - 2 * binary_seq[2 * k], 1 - 2 * binary_seq[2 * k - 1]>>]]

\* map_to_qpsk: m1 = seq[::2], m2 = seq[1::2]; symbol k is
\* (1/sqrt(2)) * ((1 - 2*m1[k]) + 1j*(1 - 2*m2[k])), kept as the pair of signs
map_to_qpsk(binary_seq) ==
    IF Len(binary_seq) % 2 # 0 THEN [raised |-> "ValueError"]
    ELSE [raised |-> "none",
          symbols |-> [k \in 1..(Len(binary_seq) \div 2) |->
                          <<1 - 2 * binary_seq[2 * k - 1], 1 - 2 * binary_seq[2 * k]>>]]

\* numpy reshape(n_sc, num_symbols): row-major, rows and columns from 0
Reshape(flat, n_sc, num_symbols) ==
    [rc \in (0..(n_sc - 1)) \X (0..(num_symbols - 1)) |->
        flat[rc[1] * num_symbols + rc[2] + 1]]

\* PDSCH_DMRS.generate_symbols
PdschDmrsGenerateSymbols(positions, num_rb, num_symbols, cell_id, slot_idx, symbol_idx) ==
    LET n_positions == Len(positions)
        n_sc == num_rb * n_positions
        c_init == PdschCInit(cell_id, slot_idx, symbol_idx)
        total_binary_symbols == n_sc * num_symbols * 2
        binary_seq == generate_gold_sequence(c_init, total_binary_symbols).gold_seq
        qpsk == map_to_qpsk(binary_seq)
    IN  [gold_c_init |-> c_init,
         gold_length |-> total_binary_symbols,
         binary_seq  |-> binary_seq,
         symbols     |-> Reshape(qpsk.symbols, n_sc, num_symbols)]

\* Type B positions handed over by the builder (signal_builder.py)
TypeBPositions == <<0, 1, 6, 7>>

\* cell ids tried: both ends of [0, 1007] and two values inside
DmrsCellIds == {0, 1, 503, 1007}

DmrsInputs ==
    [pc          : {"new"},
     positions   : {TypeAPositions, TypeBPositions},
     num_rb      : 1..MaxDmrsRb,
     num_symbols : 1..2,
     cell_id     : DmrsCellIds,
     slot_idx    : 0..MaxDmrsSlot,
     symbol_idx  : 0..(N_SYMBOLS_PER_SLOT - 1)]

DmrsInit ==
    /\ GridOff
    /\ idx = NoIdx
    /\ gold = NoGold
    /\ dmrs \in DmrsInputs
    /\ LaterOff
    /\ FinalOff

\* reference_signal.generate_symbols(num_rb, num_symbols, cell_id, slot_idx,
\* symbol_idx)
GenerateSymbols ==
    /\ dmrs.pc = "new"
    /\ \E r \in {PdschDmrsGenerateSymbols(dmrs.positions, dmrs.num_rb,
                      dmrs.num_symbols, dmrs.cell_id, dmrs.slot_idx,
                      dmrs.symbol_idx)} :
        dmrs' = [pc          |-> "done",
                 positions   |-> dmrs.positions,
                 num_rb      |-> dmrs.num_rb,
                 num_symbols |-> dmrs.num_symbols,
                 cell_id     |-> dmrs.cell_id,
                 slot_idx    |-> dmrs.slot_idx,
                 symbol_idx  |-> dmrs.symbol_idx,
                 gold_c_init |-> r.gold_c_init,
                 gold_length |-> r.gold_length,
                 binary_seq  |-> r.binary_seq,
                 symbols     |-> r.symbols]
    /\ UNCHANGED <<gridVars, idx, gold, laterVars, finalVars>>

DmrsNext == GenerateSymbols

SpecDmrs == DmrsInit /\ [][DmrsNext]_vars

\* the grid and the generators above are not in use
EarlyOff ==
    /\ GridOff
    /\ idx = NoIdx
    /\ gold = NoGold
    /\ dmrs = NoDmrs

earlyVars == <<gridVars, idx, gold, dmrs>>

----------------------------------------------------------------------------
(* PBCH DMRS generation *)

\* PBCH_DMRS.__init__: positions = [(i * 4 + v) % 12 for i in range(3)]
PbchPositions(cell_id) ==
    LET v == cell_id % 4
    IN  [k \in 1..3 |-> ((k - 1) * 4 + v) % 12]

\* mutant: the half frame always counts four
PbchISsb_AlwaysFour(ssb_index, half_frame) == ssb_index + 4 * half_frame

\* i_ssb from the SSB index and the half frame
PbchISsb(ssb_index, half_frame) ==
    IF ssb_index <= 3
    THEN ssb_index + 4 * half_frame
    ELSE ssb_index + 8 * half_frame

\* mutant: the seed leaves out the 2**6 term
PbchCInit_NoMiddleTerm(cell_id, i_ssb) ==
    AddMod31(ShlMod31((i_ssb + 1) * (cell_id \div 4 + 1), 11), cell_id % 4)

\* c_init = (2**11 * (i_ssb + 1) * (cell_id // 4 + 1) + 2**6 * (i_ssb + 1)
\*           + cell_id % 4) % (2**31)
PbchCInit(cell_id, i_ssb) ==
    AddMod31(AddMod31(ShlMod31((i_ssb + 1) * (cell_id \div 4 + 1), 11),
                      ShlMod31(i_ssb + 1, 6)),
             cell_id % 4)

\* PBCH_DMRS.generate_symbols
PbchDmrsGenerateSymbols(cell_id, num_rb, num_symbols, ssb_index, half_frame) ==
    LET n_positions == Len(PbchPositions(cell_id))
        n_sc == num_rb * n_positions
        i_ssb == PbchISsb(ssb_index, half_frame)
        c_init == PbchCInit(cell_id, i_ssb)
        total_binary_symbols == n_sc * num_symbols * 2
        binary_seq == generate_gold_sequence(c_init, total_binary_symbols).gold_seq
        qpsk_symbols == map_to_qpsk(binary_seq)
    IN  [gold_c_init |-> c_init,
         gold_length |-> total_binary_symbols,
         binary_seq  |-> binary_seq,
         symbols     |-> Reshape(qpsk_symbols.symbols, n_sc, num_symbols)]

\* largest SSB index tried
MaxSsbIndex == 63

\* cell ids tried: every residue mod 4, both ends of [0, 1007], one inside
PbchCellIds == {0, 1, 2, 3, 4, 503, 1007}

PbchInputs ==
    [pc         : {"new"},
     cell_id    : PbchCellIds,
     ssb_index  : 0..MaxSsbIndex,
     half_frame : {0, 1}]

PbchInit ==
    /\ EarlyOff
    /\ pbch \in PbchInputs
    /\ mapq = Off
    /\ ofdm = Off
    /\ carrier = Off
    /\ wave = Off
    /\ sym = Off
    /\ FinalOff

\* PBCH_DMRS(cell_id).generate_symbols(1, 1, ssb_index, half_frame)
GeneratePbchSymbols ==
    /\ pbch.pc = "new"
    /\ \E r \in {PbchDmrsGenerateSymbols(pbch.cell_id, 1, 1, pbch.ssb_index,
                                         pbch.half_frame)} :
        pbch' = [pc          |-> "done",
                 cell_id     |-> pbch.cell_id,
                 ssb_index   |-> pbch.ssb_index,
                 half_frame  |-> pbch.half_frame,
                 gold_c_init |-> r.gold_c_init,
                 gold_length |-> r.gold_length,
                 binary_seq  |-> r.binary_seq,
                 symbols     |-> r.symbols]
    /\ UNCHANGED <<earlyVars, mapq, ofdm, carrier, wave, sym, finalVars>>

PbchNext == GeneratePbchSymbols

SpecPbch == PbchInit /\ [][PbchNext]_vars

----------------------------------------------------------------------------
(* QPSK mapping on its own: every bit sequence within the bound *)

\* longest bit sequence tried
MaxQpskBits == 7

\* the bit sequences of length n
BitSeqs(n) == [1..n -> {0, 1}]

QpskInputs ==
    UNION {[pc : {"new"}, binary_seq : BitSeqs(n)] : n \in 0..MaxQpskBits}

QpskInit ==
    /\ EarlyOff
    /\ pbch = Off
    /\ mapq \in QpskInputs
    /\ ofdm = Off
    /\ carrier = Off
    /\ wave = Off
    /\ sym = Off
    /\ FinalOff

\* map_to_qpsk(binary_seq): what the call raised and, if it returned, the
\* symbols (each the pair of its real and imaginary part, in units of
\* 1/sqrt(2))
MapToQpsk ==
    /\ mapq.pc = "new"
    /\ mapq' = [pc         |-> "done",
                binary_seq |-> mapq.binary_seq,
                out        |-> map_to_qpsk(mapq.binary_seq)]
    /\ UNCHANGED <<earlyVars, pbch, ofdm, carrier, wave, sym, finalVars>>

QpskNext == MapToQpsk

SpecQpsk == QpskInit /\ [][QpskNext]_vars

----------------------------------------------------------------------------
(* OFDM parameters (waveforms/ofdm.py) *)

\* pick_fft: n = 1; while n < n_useful: n <<= 1
RECURSIVE PickFftFrom(_, _)
PickFftFrom(n, n_useful) ==
    IF n < n_useful THEN PickFftFrom(2 * n, n_useful) ELSE n

\* mutant: the loop runs while n <= n_useful
pick_fft_Strict(n_useful) == PickFftFrom(1, n_useful + 1)

pick_fft(n_useful) == PickFftFrom(1, n_useful)

\* Python round() of the exact quotient num / den: to the nearest integer, a
\* tie to the even one
PyRound(num, den) ==
    LET q == num \div den
        r == num % den
    IN  IF 2 * r < den THEN q
        ELSE IF 2 * r > den THEN q + 1
        ELSE IF q % 2 = 0 THEN q ELSE q + 1

\* round() of a quotient the code computes in floating point through the
\* inexact factor k = 64 / (15000 * 32 * 4096): away from a tie the nearest
\* integer; at an exact tie the rounding error of the product decides, so
\* either neighbour can come out
FloatRound(num, den) ==
    LET q == num \div den
        r == num % den
    IN  IF 2 * r < den THEN {q}
        ELSE IF 2 * r > den THEN {q + 1}
        ELSE {q, q + 1}

\* symbols_per_slot of the normal-CP branch
SYMBOLS_NORMAL == 14

\* symbols_per_slot of the extended-CP branch
SYMBOLS_EXTENDED == 12

\* range(n - 1, -1, -1)
Descending(n) == [k \in 1..n |-> n - k]

\* mutant: no symbol of the slot is a long-CP symbol
long_positions_None(mu) == <<>>

\* long_positions = [0] if mu >= 1 else [0, 7]
long_positions(mu) == IF mu >= 1 THEN <<0>> ELSE <<0, 7>>

\* cp_per_symbol before the timing compensation, indexed 0..13 as in the code
BaseCp(cp_short, cp_long, mu) ==
    [i \in 0..(SYMBOLS_NORMAL - 1) |->
        IF InSeq(i, long_positions(mu)) THEN cp_long ELSE cp_short]

\* sum of N_useful + cp over the symbols of the slot
RECURSIVE SumSamples(_, _, _)
SumSamples(cp, N_useful, n) ==
    IF n = 0 THEN 0 ELSE SumSamples(cp, N_useful, n - 1) + (N_useful + cp[n - 1])

\* order of the padding loop: long-CP symbols first, then from the end
AddOrder(mu) ==
    long_positions(mu)
        \o SelectSeq(Descending(SYMBOLS_NORMAL),
                     LAMBDA i : ~InSeq(i, long_positions(mu)))

\* mutant: the trimming loop starts at symbol 0
RemoveOrder_FromFront(cp) ==
    SelectSeq(PyRange(0, SYMBOLS_NORMAL), LAMBDA i : cp[i] > 0)

\* order of the trimming loop: from the end, the symbols that have a CP
RemoveOrder(cp) == SelectSeq(Descending(SYMBOLS_NORMAL), LAMBDA i : cp[i] > 0)

\* for _ in range(n): i = order[k % len(order)]; cp_per_symbol[i] += delta
RECURSIVE Compensate(_, _, _, _, _)
Compensate(cp, order, k, n, delta) ==
    IF k >= n THEN cp
    ELSE Compensate([cp EXCEPT ![order[(k % Len(order)) + 1]] = @ + delta],
                    order, k + 1, n, delta)

\* the normal-CP branch once cp_short and cp_long are rounded;
\* slot_duration_s = 1e-3 / 2**mu is kept as <<numerator, denominator>>
NormalCpParams(fs_hz, mu, scs_hz, N_useful, N_fft, cp_short, cp_long) ==
    LET base    == BaseCp(cp_short, cp_long, mu)
        target  == PyRound(fs_hz, 1000 * (2 ^ mu))
        deficit == target - SumSamples(base, N_useful, SYMBOLS_NORMAL)
        order   == IF deficit > 0 THEN AddOrder(mu) ELSE RemoveOrder(base)
    IN  IF deficit # 0 /\ order = <<>>
        THEN [raised |-> "ZeroDivisionError"]
        ELSE [raised           |-> "none",
              fs               |-> fs_hz,
              mu               |-> mu,
              scs_hz           |-> scs_hz,
              N_useful         |-> N_useful,
              N_fft            |-> N_fft,
              cp_short         |-> cp_short,
              cp_long          |-> cp_long,
              symbols_per_slot |-> SYMBOLS_NORMAL,
              slot_duration_s  |-> <<1, 1000 * (2 ^ mu)>>,
              cp_per_symbol    |->
                  IF deficit > 0 THEN Compensate(base, order, 0, deficit, 1)
                  ELSE IF deficit < 0 THEN Compensate(base, order, 0, -deficit, -1)
                  ELSE base]

\* the extended-CP branch: cp_e = round(N_useful * (512/2048)), no timing
\* compensation
ExtendedCpParams(fs_hz, mu, scs_hz, N_useful, N_fft) ==
    LET cp_e == PyRound(N_useful, 4)
    IN  [raised           |-> "none",
         fs               |-> fs_hz,
         mu               |-> mu,
         scs_hz           |-> scs_hz,
         N_useful         |-> N_useful,
         N_fft            |-> N_fft,
         cp_short         |-> cp_e,
         cp_long          |-> cp_e,
         symbols_per_slot |-> SYMBOLS_EXTENDED,
         slot_duration_s  |-> <<1, 1000 * (2 ^ mu)>>,
         cp_per_symbol    |-> [i \in 0..(SYMBOLS_EXTENDED - 1) |-> cp_e]]

\* calculate_ofdm_params(fs_hz, mu, cp_type, custom_fft_size): the outcomes
\* the call can have.  fs_hz is a whole number of Hz, so fs_hz / scs_hz is
\* within 1e-9 of an integer exactly when scs_hz divides fs_hz.
\* custom_fft_size is <<>> for None and <<n>> for the size n.
\* 144 * k = 3/640000 and 160 * k = 1/192000 for k = 64 / (15000 * 32 * 4096).
calculate_ofdm_params(fs_hz, mu, cp_type, custom_fft_size) ==
    IF mu \notin 0..4 THEN {[raised |-> "AssertionError"]}
    ELSE LET scs_hz == 15000 * (2 ^ mu) IN
    IF fs_hz % scs_hz # 0 THEN {[raised |-> "ValueError"]}
    ELSE LET N_useful == fs_hz \div scs_hz IN
    IF custom_fft_size # <<>> /\ custom_fft_size[1] < N_useful
    THEN {[raised |-> "ValueError"]}
    ELSE LET N_fft == IF custom_fft_size # <<>> THEN custom_fft_size[1]
                      ELSE pick_fft(N_useful) IN
    IF cp_type = "extended"
    THEN IF mu # 2 THEN {[raised |-> "ValueError"]}
         ELSE {ExtendedCpParams(fs_hz, mu, scs_hz, N_useful, N_fft)}
    ELSE {NormalCpParams(fs_hz, mu, scs_hz, N_useful, N_fft, cp_short, cp_long) :
              cp_short \in FloatRound(3 * fs_hz, 640000 * (2 ^ mu)),
              cp_long  \in FloatRound(fs_hz, 192000 * (2 ^ mu))}

\* sample rates tried: the multiples of 7.5 kHz up to this many, ...
MaxFsUnits == 128

\* ... and three rates of deployed carriers
StandardRates == {11520000, 30720000, 61440000}

OfdmRates == {7500 * j : j \in 1..MaxFsUnits} \cup StandardRates

\* custom_fft_size: None, or a size
OfdmFftSizes == {<<>>, <<0>>, <<16>>, <<384>>, <<512>>}

OfdmInputs ==
    [pc              : {"new"},
     fs_hz           : OfdmRates,
     mu              : 0..5,
     cp_type         : {"normal", "extended"},
     custom_fft_size : OfdmFftSizes]

OfdmInit ==
    /\ EarlyOff
    /\ pbch = Off
    /\ mapq = Off
    /\ ofdm \in OfdmInputs
    /\ carrier = Off
    /\ wave = Off
    /\ sym = Off
    /\ FinalOff

\* calculate_ofdm_params(fs_hz, mu, cp_type, custom_fft_size)
CalculateOfdmParams ==
    /\ ofdm.pc = "new"
    /\ \E r \in calculate_ofdm_params(ofdm.fs_hz, ofdm.mu, ofdm.cp_type,
                                      ofdm.custom_fft_size) :
        ofdm' = [pc              |-> "done",
                 fs_hz           |-> ofdm.fs_hz,
                 mu              |-> ofdm.mu,
                 cp_type         |-> ofdm.cp_type,
                 custom_fft_size |-> ofdm.custom_fft_size,
                 out             |-> r]
    /\ UNCHANGED <<earlyVars, pbch, mapq, carrier, wave, sym, finalVars>>

OfdmNext == CalculateOfdmParams

SpecOfdm == OfdmInit /\ [][OfdmNext]_vars

----------------------------------------------------------------------------
(* Bandwidth table and carrier configuration (core/definitions.py,        *)
(* core/carrier.py)                                                        *)

\* RB_TABLE as the dict display lists it: <<bandwidth_mhz, numerology,
\* rb_count>>, in source order
RB_TABLE_FR1 ==
    << <<5, 0, 25>>,    <<5, 1, 11>>,
       <<10, 0, 52>>,   <<10, 1, 24>>,   <<10, 2, 11>>,
       <<15, 0, 79>>,   <<15, 1, 38>>,   <<15, 2, 18>>,
       <<20, 0, 106>>,  <<20, 1, 51>>,   <<20, 2, 24>>,
       <<25, 0, 133>>,  <<25, 1, 65>>,   <<25, 2, 31>>,
       <<30, 0, 160>>,  <<30, 1, 78>>,   <<30, 2, 38>>,
       <<40, 0, 216>>,  <<40, 1, 106>>,  <<40, 2, 51>>,
       <<50, 0, 270>>,  <<50, 1, 133>>,  <<50, 2, 65>>,
       <<60, 0, 324>>,  <<60, 1, 162>>,  <<60, 2, 79>>,
       <<70, 0, 378>>,  <<70, 1, 189>>,  <<70, 2, 93>>,
       <<80, 0, 432>>,  <<80, 1, 217>>,  <<80, 2, 107>>,
       <<90, 0, 486>>,  <<90, 1, 245>>,  <<90, 2, 121>>,
       <<100, 0, 540>>, <<100, 1, 273>>, <<100, 2, 135>> >>

RB_TABLE_FR2_1 ==
    << <<50, 2, 66>>,   <<50, 3, 32>>,
       <<100, 2, 132>>, <<100, 3, 66>>,
       <<200, 2, 264>>, <<200, 3, 132>>,
       <<400, 2, 528>>, <<400, 3, 264>> >>

RB_TABLE_FR2_2 ==
    << <<400, 3, 264>>,   <<400, 4, 132>>,
       <<800, 3, 528>>,   <<800, 4, 264>>,
       <<1600, 3, 1056>>, <<1600, 4, 528>>,
       <<2000, 3, 1320>>, <<2000, 4, 660>> >>

RB_TABLE_Listing == RB_TABLE_FR1 \o RB_TABLE_FR2_1 \o RB_TABLE_FR2_2

\* key in RB_TABLE
InTable(bandwidth_mhz, numerology) ==
    \E k \in DOMAIN RB_TABLE_Listing :
        /\ RB_TABLE_Listing[k][1] = bandwidth_mhz
        /\ RB_TABLE_Listing[k][2] = numerology

\* RB_TABLE[key]: of the items a dict display lists for one key, the last is
\* the one the dict holds
TableValue(bandwidth_mhz, numerology) ==
    LET ks == {k \in DOMAIN RB_TABLE_Listing :
                  /\ RB_TABLE_Listing[k][1] = bandwidth_mhz
                  /\ RB_TABLE_Listing[k][2] = numerology}
    IN  RB_TABLE_Listing[CHOOSE k \in ks : \A j \in ks : k >= j][3]

\* get_rb_count(bandwidth_mhz, numerology)
get_rb_count(bandwidth_mhz, numerology) ==
    IF ~InTable(bandwidth_mhz, numerology)
    THEN [raised |-> "ValueError"]
    ELSE [raised |-> "none", value |-> TableValue(bandwidth_mhz, numerology)]

\* get_numerology(mu): the numerology value of mu in 0..4
get_numerology(mu) ==
    [mu                    |-> mu,
     subcarrier_spacing    |-> 15 * (2 ^ mu),
     slots_per_subframe    |-> 2 ^ mu]

\* the largest physical cell identity
MAX_CELL_ID == 1007

\* ResourceElement(subcarrier=..., symbol=..., slot=..., channel_type=...,
\* value=...): ResourceElement.__init__(self) takes no argument
ResourceElementWithFields == [raised |-> "TypeError"]

\* CarrierConfig(numerology, n_size_grid, cyclic_prefix, n_cell_id):
\* __post_init__ validates, then builds the list of all REs of the frame
CarrierConfig(numerology, n_size_grid, cyclic_prefix, n_cell_id) ==
    IF cyclic_prefix \notin {"normal", "extended"}
    THEN [raised |-> "ValueError", message |-> "cyclic prefix"]
    ELSE IF ~(0 <= n_cell_id /\ n_cell_id <= MAX_CELL_ID)
    THEN [raised |-> "ValueError", message |-> "cell id"]
    ELSE LET slots_per_subframe == numerology.slots_per_subframe
             total_slots        == 10 * slots_per_subframe
             total_subcarriers  == n_size_grid * N_SC_PER_RB
             n_elements == IF total_subcarriers > 0
                           THEN total_slots * N_SYMBOLS_PER_SLOT * total_subcarriers
                           ELSE 0
         IN  IF n_elements > 0
             THEN [raised |-> ResourceElementWithFields.raised,
                   message |-> "unexpected keyword argument"]
             ELSE [raised        |-> "none",
                   numerology    |-> numerology,
                   n_size_grid   |-> n_size_grid,
                   cyclic_prefix |-> cyclic_prefix,
                   n_cell_id     |-> n_cell_id,
                   resource_grid |-> <<>>]

\* CarrierConfig.from_bandwidth(bandwidth_mhz, mu, cyclic_prefix=...,
\* n_cell_id=...)
from_bandwidth(bandwidth_mhz, mu, cyclic_prefix, n_cell_id) ==
    LET numerology == get_numerology(mu)
        n_size_grid == get_rb_count(bandwidth_mhz, mu)
    IN  IF n_size_grid.raised # "none"
        THEN [raised |-> n_size_grid.raised, message |-> "bandwidth"]
        ELSE CarrierConfig(numerology, n_size_grid.value, cyclic_prefix, n_cell_id)

\* largest n_size_grid handed to the constructor directly
MaxGridRb == 2

\* bandwidths tried: those of the table and some that are not in it
Bandwidths ==
    {RB_TABLE_Listing[k][1] : k \in DOMAIN RB_TABLE_Listing} \cup {0, 1, 35, 45, 3000}

\* cell ids tried: both ends of [0, 1007], one inside, and the two
\* neighbours outside
CarrierCellIds == {-1, 0, 503, MAX_CELL_ID, MAX_CELL_ID + 1}

CyclicPrefixes == {"normal", "extended", "long"}

CarrierInputs ==
    [pc : {"new"}, op : {"get_rb_count"}, bandwidth_mhz : Bandwidths, mu : 0..5]
    \cup [pc : {"new"}, op : {"from_bandwidth"}, bandwidth_mhz : Bandwidths,
          mu : 0..4, cyclic_prefix : CyclicPrefixes, n_cell_id : CarrierCellIds]
    \cup [pc : {"new"}, op : {"CarrierConfig"}, mu : 0..4,
          n_size_grid : 0..MaxGridRb, cyclic_prefix : CyclicPrefixes,
          n_cell_id : CarrierCellIds]

CarrierInit ==
    /\ EarlyOff
    /\ pbch = Off
    /\ mapq = Off
    /\ ofdm = Off
    /\ carrier \in CarrierInputs
    /\ wave = Off
    /\ sym = Off
    /\ FinalOff

\* get_rb_count(bandwidth_mhz, mu)
GetRbCount ==
    /\ carrier.pc = "new"
    /\ carrier.op = "get_rb_count"
    /\ carrier' = [carrier EXCEPT !.pc = "done"]
                    @@ [out |-> get_rb_count(carrier.bandwidth_mhz, carrier.mu)]
    /\ UNCHANGED <<earlyVars, pbch, mapq, ofdm, wave, sym, finalVars>>

\* CarrierConfig.from_bandwidth(bandwidth_mhz, mu, ...)
FromBandwidth ==
    /\ carrier.pc = "new"
    /\ carrier.op = "from_bandwidth"
    /\ carrier' = [carrier EXCEPT !.pc = "done"]
                    @@ [out |-> from_bandwidth(carrier.bandwidth_mhz, carrier.mu,
                                   carrier.cyclic_prefix, carrier.n_cell_id)]
    /\ UNCHANGED <<earlyVars, pbch, mapq, ofdm, wave, sym, finalVars>>

\* CarrierConfig(numerology=get_numerology(mu), n_size_grid=..., ...)
ConstructCarrier ==
    /\ carrier.pc = "new"
    /\ carrier.op = "CarrierConfig"
    /\ carrier' = [carrier EXCEPT !.pc = "done"]
                    @@ [out |-> CarrierConfig(get_numerology(carrier.mu),
                                   carrier.n_size_grid, carrier.cyclic_prefix,
                                   carrier.n_cell_id)]
    /\ UNCHANGED <<earlyVars, pbch, mapq, ofdm, wave, sym, finalVars>>

CarrierNext ==
    \/ GetRbCount
    \/ FromBandwidth
    \/ ConstructCarrier

SpecCarrier == CarrierInit /\ [][CarrierNext]_vars

----------------------------------------------------------------------------
(* Waveform generation (core/waveform.py, utils/resample.py) *)

\* int.bit_length()
RECURSIVE BitLength(_)
BitLength(n) == IF n <= 0 THEN 0 ELSE 1 + BitLength(n \div 2)

\* math.gcd
RECURSIVE GCD(_, _)
GCD(a, b) == IF b = 0 THEN a ELSE GCD(b, a % b)

\* numpy x[-c:]: the last c entries; -0 is 0, so x[-0:] is the whole of x
NegSlice(x, c) ==
    IF c = 0 \/ c >= Len(x) THEN x
    ELSE [k \in 1..c |-> x[Len(x) - c + k]]

\* n_fft = 1 << (n_subcarriers - 1).bit_length()
StandardFftSize(n_resource_blocks) ==
    2 ^ BitLength(n_resource_blocks * N_SC_PER_RB - 1)

\* WaveformGenerator._get_ofdm_params: the outcomes of the call
GetOfdmParams(carrier_config) ==
    LET scs_hz == carrier_config.subcarrier_spacing * 1000
        n_fft == StandardFftSize(carrier_config.n_resource_blocks)
        standard_fs == scs_hz * n_fft
    IN  calculate_ofdm_params(standard_fs, carrier_config.numerology.mu,
                              "normal", <<>>)

\* np.fft.ifft(padded_data): N_fft time samples, each named by its index
IfftOutput(n_fft) == [k \in 1..n_fft |-> k - 1]

\* WaveformGenerator.generate_ofdm_symbol for data of n_data values: the
\* samples returned, each named by its index in the inverse transform
generate_ofdm_symbol(n_data, ofdm_params, symbol_idx) ==
    LET cp_length == ofdm_params.cp_per_symbol[symbol_idx]
        start_idx == ofdm_params.N_fft \div 2 - n_data \div 2
    IN  IF n_data > ofdm_params.N_fft
        THEN [raised |-> "ValueError"]
        ELSE LET time_symbol_full == IfftOutput(ofdm_params.N_fft)
                 start_useful == (ofdm_params.N_fft - ofdm_params.N_useful) \div 2
                 end_useful == start_useful + ofdm_params.N_useful
                 time_symbol == Slice(time_symbol_full, start_useful, end_useful)
                 cp == NegSlice(time_symbol, cp_length)
             IN  [raised      |-> "none",
                  start_idx   |-> start_idx,
                  samples     |-> cp \o time_symbol]

\* padded_data as generate_ofdm_symbol hands it to np.fft.ifft: for each bin
\* of the inverse transform the index of the input value it holds, -1 for a
\* bin left at zero
padded_data(n_data, ofdm_params) ==
    LET start_idx == ofdm_params.N_fft \div 2 - n_data \div 2
    IN  [bin \in 0..(ofdm_params.N_fft - 1) |->
            IF start_idx <= bin /\ bin < start_idx + n_data
            THEN bin - start_idx ELSE -1]

\* generate_slot_waveform: the number of samples of the 14 concatenated
\* symbols of one slot (symbols 0 .. n - 1 here)
RECURSIVE SlotWaveformLen(_, _, _)
SlotWaveformLen(n_data, ofdm_params, n) ==
    IF n = 0 THEN 0
    ELSE SlotWaveformLen(n_data, ofdm_params, n - 1)
           + Len(generate_ofdm_symbol(n_data, ofdm_params, n - 1).samples)

\* the number of samples of the concatenated slots 0 .. n - 1
RECURSIVE FrameWaveformLen(_, _, _)
FrameWaveformLen(n_data, ofdm_params, n) ==
    IF n = 0 THEN 0
    ELSE FrameWaveformLen(n_data, ofdm_params, n - 1)
           + SlotWaveformLen(n_data, ofdm_params, N_SYMBOLS_PER_SLOT)

AbsV(x) == IF x < 0 THEN -x ELSE x

\* the denominator bound of resample_waveform
MAX_DENOMINATOR == 1000

\* Fraction.limit_denominator: the loop over the continued fraction of N / D
\* and the choice between the two bounds; the result is <<numerator,
\* denominator>>
RECURSIVE LimitLoop(_, _, _, _, _, _, _, _)
LimitLoop(p0, q0, p1, q1, n, d, N, D) ==
    LET a  == n \div d
        q2 == q0 + a * q1
    IN  IF q2 > MAX_DENOMINATOR
        THEN LET k   == (MAX_DENOMINATOR - q0) \div q1
                 b1p == p0 + k * p1
                 b1q == q0 + k * q1
             IN  IF AbsV(p1 * D - N * q1) * b1q <= AbsV(b1p * D - N * b1q) * q1
                 THEN <<p1, q1>>
                 ELSE <<b1p \div GCD(b1p, b1q), b1q \div GCD(b1p, b1q)>>
        ELSE LimitLoop(p1, q1, p0 + a * p1, q2, d, n - a * d, N, D)

\* Fraction(fs_out, fs_in).limit_denominator(1000)
LimitDenominator(fs_out, fs_in) ==
    LET g == GCD(fs_out, fs_in)
        N == fs_out \div g
        D == fs_in \div g
    IN  IF D <= MAX_DENOMINATOR THEN <<N, D>>
        ELSE LimitLoop(0, 1, 1, 0, N, D, N, D)

\* scipy.signal.resample_poly(iq, up, down): the length of its output,
\* ceil(len(iq) * up / down)
ResamplePolyLen(n_in, up, down) ==
    LET n_out == n_in * up
    IN  n_out \div down + (IF n_out % down # 0 THEN 1 ELSE 0)

\* resample_waveform(iq, fs_in, fs_out), for iq of n_in samples: the length
\* of the result.  fs_out is a whole number, held as an int or as a float
\* (rate_type); Fraction() takes no float beside a second argument.
resample_waveform(n_in, fs_in, fs_out, rate_type) ==
    IF fs_in = fs_out THEN [raised |-> "none", n_samples |-> n_in]
    ELSE IF rate_type = "float" THEN [raised |-> "TypeError"]
    ELSE LET frac == LimitDenominator(fs_out, fs_in)
         IN  [raised    |-> "none",
              n_samples |-> ResamplePolyLen(n_in, frac[1], frac[2])]

\* generate_frame_waveform(grid, carrier_config), with the OFDM parameters
\* its call of _get_ofdm_params returned: the number of samples returned
generate_frame_waveform(n_data, carrier_config, ofdm_params) ==
    LET slots_per_subframe == carrier_config.numerology.slots_per_subframe
        total_slots == 10 * slots_per_subframe
        n_samples == FrameWaveformLen(n_data, ofdm_params, total_slots)
    IN  IF AbsV(ofdm_params.fs - carrier_config.sample_rate) > 1
        THEN resample_waveform(n_samples, ofdm_params.fs,
                               carrier_config.sample_rate,
                               carrier_config.rate_type)
        ELSE [raised |-> "none", n_samples |-> n_samples]

\* int(round(a * b / c)), the quotient a * b / c being exact in floating
\* point up to its last bit; computed on a / gcd(a, c) to stay in range
RoundProduct(a, b, c) ==
    LET g == GCD(a, c)
    IN  PyRound((a \div g) * b, c \div g)

\* get_waveform_parameters(carrier_config), with the OFDM parameters its call
\* of _get_ofdm_params returned
get_waveform_parameters(carrier_config, ofdm_params) ==
    LET slots_per_subframe == carrier_config.numerology.slots_per_subframe
        total_slots == 10 * slots_per_subframe
        total_symbols == total_slots * N_SYMBOLS_PER_SLOT
        samples_per_symbol ==
            [i \in DOMAIN ofdm_params.cp_per_symbol |->
                ofdm_params.N_useful + ofdm_params.cp_per_symbol[i]]
        standard_samples ==
            SumSamples(ofdm_params.cp_per_symbol, ofdm_params.N_useful,
                       ofdm_params.symbols_per_slot) * total_slots
        resampled == AbsV(ofdm_params.fs - carrier_config.sample_rate) > 1
    IN  [fft_size           |-> ofdm_params.N_fft,
         useful_size        |-> ofdm_params.N_useful,
         cp_short           |-> ofdm_params.cp_short,
         cp_long            |-> ofdm_params.cp_long,
         cp_per_symbol      |-> ofdm_params.cp_per_symbol,
         samples_per_symbol |-> samples_per_symbol,
         total_slots        |-> total_slots,
         total_symbols      |-> total_symbols,
         total_samples      |->
             IF resampled
             THEN RoundProduct(standard_samples, carrier_config.sample_rate,
                               ofdm_params.fs)
             ELSE standard_samples,
         subcarrier_spacing |-> ofdm_params.scs_hz,
         sample_rate        |-> IF resampled THEN carrier_config.sample_rate
                                ELSE ofdm_params.fs,
         slot_duration      |-> ofdm_params.slot_duration_s,
         num_rb             |-> carrier_config.n_resource_blocks,
         numerology         |-> ofdm_params.mu]

\* the carrier configuration the waveform generator reads: numerology,
\* subcarrier spacing in kHz, number of resource blocks, sample rate
WaveCarrier(mu, n_resource_blocks, sample_rate, rate_type) ==
    [numerology         |-> get_numerology(mu),
     subcarrier_spacing |-> get_numerology(mu).subcarrier_spacing,
     n_resource_blocks  |-> n_resource_blocks,
     sample_rate        |-> sample_rate,
     rate_type          |-> rate_type]

\* largest number of resource blocks and largest numerology of the carriers
\* tried
MaxWaveRb == 2

MaxWaveMu == 1

\* sample rates asked for, in Hz
WaveRates == {120000, 240000, 240001, 240060, 240240, 480000, 960000}

WaveInputs ==
    [pc                : {"new"},
     mu                : 0..MaxWaveMu,
     n_resource_blocks : 1..MaxWaveRb,
     sample_rate       : WaveRates,
     rate_type         : {"int", "float"}]

WaveInit ==
    /\ EarlyOff
    /\ pbch = Off
    /\ mapq = Off
    /\ ofdm = Off
    /\ carrier = Off
    /\ wave \in WaveInputs
    /\ sym = Off
    /\ FinalOff

\* the carrier configuration under test
WaveConfig ==
    WaveCarrier(wave.mu, wave.n_resource_blocks, wave.sample_rate, wave.rate_type)

\* generate_frame_waveform(grid, carrier_config) on a grid of the carrier's
\* n_resource_blocks * 12 subcarriers
GenerateFrameWaveform ==
    /\ wave.pc = "new"
    /\ \E p \in GetOfdmParams(WaveConfig) :
        wave' = [wave EXCEPT !.pc = "generated"]
                  @@ [ofdm_params |-> p,
                      frame |-> generate_frame_waveform(
                                    wave.n_resource_blocks * N_SC_PER_RB,
                                    WaveConfig, p)]
    /\ UNCHANGED <<earlyVars, pbch, mapq, ofdm, carrier, sym, finalVars>>

\* get_waveform_parameters(carrier_config) for the same configuration; its
\* call of _get_ofdm_params computes the same parameters again
GetWaveformParameters ==
    /\ wave.pc = "generated"
    /\ \E p \in GetOfdmParams(WaveConfig) :
        /\ p = wave.ofdm_params
        /\ wave' = [wave EXCEPT !.pc = "done"]
                     @@ [params |-> get_waveform_parameters(WaveConfig, p)]
    /\ UNCHANGED <<earlyVars, pbch, mapq, ofdm, carrier, sym, finalVars>>

WaveNext ==
    \/ GenerateFrameWaveform
    \/ GetWaveformParameters

SpecWave == WaveInit /\ [][WaveNext]_vars

----------------------------------------------------------------------------
(* One OFDM symbol on its own *)

\* sample rates tried: the multiples of 15 kHz up to this many
MaxSymUnits == 16

SymInputs ==
    [pc              : {"new"},
     fs_hz           : {15000 * j : j \in 1..MaxSymUnits},
     mu              : {0, 1},
     custom_fft_size : {<<>>, <<32>>},
     n_data          : {1, 12},
     symbol_idx      : 0..(N_SYMBOLS_PER_SLOT - 1)]

SymInit ==
    /\ EarlyOff
    /\ pbch = Off
    /\ mapq = Off
    /\ ofdm = Off
    /\ carrier = Off
    /\ wave = Off
    /\ sym \in SymInputs
    /\ FinalOff

\* ofdm_params = calculate_ofdm_params(fs_hz, mu, "normal", custom_fft_size)
PrepareOfdmParams ==
    /\ sym.pc = "new"
    /\ \E p \in calculate_ofdm_params(sym.fs_hz, sym.mu, "normal",
                                      sym.custom_fft_size) :
        sym' = [sym EXCEPT !.pc = IF p.raised = "none" THEN "ready" ELSE "rejected"]
                 @@ [ofdm_params |-> p]
    /\ UNCHANGED <<earlyVars, pbch, mapq, ofdm, carrier, wave, finalVars>>

\* generate_ofdm_symbol(data, ofdm_params, symbol_idx), len(data) = n_data
GenerateOfdmSymbol ==
    /\ sym.pc = "ready"
    /\ sym' = [sym EXCEPT !.pc = "done"]
                @@ [out |-> generate_ofdm_symbol(sym.n_data, sym.ofdm_params,
                                                 sym.symbol_idx)]
    /\ UNCHANGED <<earlyVars, pbch, mapq, ofdm, carrier, wave, finalVars>>

SymNext ==
    \/ PrepareOfdmParams
    \/ GenerateOfdmSymbol

SpecSym == SymInit /\ [][SymNext]_vars

----------------------------------------------------------------------------
(* The frame waveform, slot by slot (core/waveform.py) *)

\* generate_slot_waveform(grid, slot_idx, ofdm_params): the OFDM symbols it
\* concatenates, in order; each with the grid column it is made from, its
\* index within the slot, the length of its cyclic prefix and of the whole
\* symbol
generate_slot_waveform(n_data, slot_idx, ofdm_params) ==
    LET slot_start == slot_idx * N_SYMBOLS_PER_SLOT
    IN  [k \in 1..N_SYMBOLS_PER_SLOT |->
            LET sym_idx == k - 1
                ofdm_symbol == generate_ofdm_symbol(n_data, ofdm_params, sym_idx)
            IN  [slot_idx  |-> slot_idx,
                 column    |-> slot_start + sym_idx,
                 sym_idx   |-> sym_idx,
                 cp_length |-> Len(ofdm_symbol.samples) - ofdm_params.N_useful,
                 n_samples |-> Len(ofdm_symbol.samples)]]

\* the carrier configuration with its cyclic prefix type (carrier.py), asking
\* for the standard sample rate of its numerology and bandwidth
FrameCarrier(mu, n_resource_blocks, cyclic_prefix) ==
    [cyclic_prefix |-> cyclic_prefix]
        @@ WaveCarrier(mu, n_resource_blocks,
                       get_numerology(mu).subcarrier_spacing * 1000
                           * StandardFftSize(n_resource_blocks),
                       "int")

\* largest numerology and number of resource blocks of the carriers tried
MaxFrameMu == 2

MaxFrameRb == 2

FrameInputs ==
    [pc                : {"new"},
     mu                : 0..MaxFrameMu,
     n_resource_blocks : 1..MaxFrameRb,
     cyclic_prefix     : {"normal", "extended"}]

FrameInit ==
    /\ EarlyOff
    /\ LaterOff
    /\ frame \in FrameInputs
    /\ qam = Off
    /\ shared = Off
    /\ ctrl = Off
    /\ race = Off
    /\ proj = Off

FrameConfig == FrameCarrier(frame.mu, frame.n_resource_blocks, frame.cyclic_prefix)

\* generate_frame_waveform up to its loop: ofdm_params and total_slots
BeginFrame ==
    /\ frame.pc = "new"
    /\ \E p \in GetOfdmParams(FrameConfig) :
        frame' = [frame EXCEPT !.pc = "slots"]
                   @@ [ofdm_params    |-> p,
                       total_slots    |-> 10 * FrameConfig.numerology.slots_per_subframe,
                       slot_idx       |-> 0,
                       frame_waveform |-> <<>>]
    /\ UNCHANGED <<earlyVars, laterVars, qam, shared, ctrl, race, proj>>

\* one turn of the loop over slot_idx: frame_waveform.append(slot_waveform)
FrameSlot ==
    /\ frame.pc = "slots"
    /\ frame.slot_idx < frame.total_slots
    /\ frame' = [frame EXCEPT
                   !.slot_idx = @ + 1,
                   !.frame_waveform =
                       Append(@, generate_slot_waveform(
                                     frame.n_resource_blocks * N_SC_PER_RB,
                                     frame.slot_idx, frame.ofdm_params))]
    /\ UNCHANGED <<earlyVars, laterVars, qam, shared, ctrl, race, proj>>

\* after the loop: the requested rate is the standard one, so the
\* concatenated slots are returned as they are
EndFrame ==
    /\ frame.pc = "slots"
    /\ frame.slot_idx = frame.total_slots
    /\ AbsV(frame.ofdm_params.fs - FrameConfig.sample_rate) <= 1
    /\ frame' = [frame EXCEPT !.pc = "done"]
    /\ UNCHANGED <<earlyVars, laterVars, qam, shared, ctrl, race, proj>>

FrameNext ==
    \/ BeginFrame
    \/ FrameSlot
    \/ EndFrame

SpecFrame == FrameInit /\ [][FrameNext]_vars

----------------------------------------------------------------------------

(* Modulation (core/modulation.py) *)

\* (val >> k) & 1
BitAt(val, k) == (val \div (2 ^ k)) % 2

\* map_qam64 on one group of 6 bits: <<I, Q>> before the division by sqrt(42)
map_qam64(b) ==
    <<(1 - 2 * b[1]) * (4 - (1 - 2 * b[3]) * (2 - (1 - 2 * b[5]))),
      (1 - 2 * b[2]) * (4 - (1 - 2 * b[4]) * (2 - (1 - 2 * b[6])))>>

\* map_qam256 on one group of 8 bits: <<I, Q>> before the division by sqrt(170)
map_qam256(b) ==
    <<(1 - 2 * b[1]) * (8 - (1 - 2 * b[3]) * (4 - (1 - 2 * b[5]) * (2 - (1 - 2 * b[7])))),
      (1 - 2 * b[2]) * (8 - (1 - 2 * b[4]) * (4 - (1 - 2 * b[6]) * (2 - (1 - 2 * b[8]))))>>

\* the modulation order of a modulation type (0: none, the type has no branch)
ModulationOrder(modulation) ==
    CASE modulation = "QPSK"   -> 4
      [] modulation = "QAM16"  -> 16
      [] modulation = "QAM64"  -> 64
      [] modulation = "QAM256" -> 256
      [] OTHER                 -> 0

\* the body of the loop over random_ints in generate_random_symbols: the
\* symbol for the drawn integer val, <<I, Q>> before the normalisation
RandomSymbol(modulation, val) ==
    CASE modulation = "QPSK" ->
            LET b1 == BitAt(val, 1)
                b0 == BitAt(val, 0)
            IN  <<1 - 2 * b1, 1 - 2 * b0>>
      [] modulation = "QAM16" ->
            LET b1 == BitAt(val, 0)
                b2 == BitAt(val, 1)
                b3 == BitAt(val, 2)
                b4 == BitAt(val, 3)
            IN  <<(1 - 2 * b1) * (2 - (1 - 2 * b3)),
                  (1 - 2 * b2) * (2 - (1 - 2 * b4))>>
      [] modulation = "QAM64" ->
            LET b1 == BitAt(val, 0)
                b2 == BitAt(val, 1)
                b3 == BitAt(val, 2)
                b4 == BitAt(val, 3)
                b5 == BitAt(val, 4)
                b6 == BitAt(val, 5)
            IN  <<(1 - 2 * b1) * (4 - (1 - 2 * b3) * (2 - (1 - 2 * b5))),
                  (1 - 2 * b2) * (4 - (1 - 2 * b4) * (2 - (1 - 2 * b6)))>>
      [] modulation = "QAM256" ->
            LET b1 == BitAt(val, 0)
                b2 == BitAt(val, 1)
                b3 == BitAt(val, 2)
                b4 == BitAt(val, 3)
                b5 == BitAt(val, 5)
                b6 == BitAt(val, 6)
                b7 == BitAt(val, 7)
                b8 == BitAt(val, 8)
            IN  <<(1 - 2 * b1) * (8 - (1 - 2 * b3) * (4 - (1 - 2 * b5) * (2 - (1 - 2 * b7)))),
                  (1 - 2 * b2) * (8 - (1 - 2 * b4) * (4 - (1 - 2 * b6) * (2 - (1 - 2 * b8))))>>

\* generate_random_symbols(n_sc, n_symbols, modulation) when
\* np.random.randint drew random_ints (num_symbols is its n_symbols)
generate_random_symbols(n_sc, num_symbols, modulation, random_ints) ==
    IF ModulationOrder(modulation) = 0
    THEN [raised |-> "NotImplementedError"]
    ELSE [raised  |-> "none",
          symbols |-> Reshape([i \in 1..(n_sc * num_symbols) |->
                                  RandomSymbol(modulation, random_ints[i])],
                              n_sc, num_symbols)]

\* modulation types asked for
ModulationTypes == {"BPSK", "QPSK", "QAM16", "QAM64", "QAM256"}

\* shapes (n_sc, n_symbols) asked for
QamShapes == {<<1, 1>>, <<1, 2>>, <<2, 1>>}

\* what np.random.randint(0, M, total_symbols) can return: every integer for
\* one symbol; for more, the integers at both ends of the range
RandomInts(M, total_symbols) ==
    IF total_symbols = 1 THEN {<<v>> : v \in 0..(M - 1)}
    ELSE [1..total_symbols -> {0, M - 1}]

QamInputs ==
    {[pc |-> "new", modulation |-> m, n_sc |-> sh[1], n_symbols |-> sh[2]] :
        m \in ModulationTypes, sh \in QamShapes}

QamInit ==
    /\ EarlyOff
    /\ LaterOff
    /\ frame = Off
    /\ qam \in QamInputs
    /\ shared = Off
    /\ ctrl = Off
    /\ race = Off
    /\ proj = Off

\* generate_random_symbols(n_sc, n_symbols, modulation)
GenerateRandomSymbols ==
    /\ qam.pc = "new"
    /\ \E random_ints \in RandomInts(ModulationOrder(qam.modulation),
                                     qam.n_sc * qam.n_symbols) :
        qam' = [qam EXCEPT !.pc = "done"]
                 @@ [random_ints |-> random_ints,
                     out |-> generate_random_symbols(qam.n_sc, qam.n_symbols,
                                                     qam.modulation, random_ints)]
    /\ UNCHANGED <<earlyVars, laterVars, frame, shared, ctrl, race, proj>>

QamNext == GenerateRandomSymbols

SpecQam == QamInit /\ [][QamNext]_vars

----------------------------------------------------------------------------





(* PDSCH construction and placement (core/channels/pdsch.py) *)

\* NRSignalBuilder._get_dmrs_positions
get_dmrs_positions(dmrs_type) ==
    IF dmrs_type = "A" THEN TypeAPositions ELSE TypeBPositions

\* PDSCH._generate_data: the call of reference_signal.generate_symbols, with
\* the seed it computes and the shape of the array it returns
PdschDmrsCall(ch, cell_id) ==
    LET slot_idx   == ch.slot_pattern[1]
        symbol_idx == ch.start_symbol
    IN  [num_rb      |-> ch.num_rb,
         num_symbols |-> ch.num_symbols,
         cell_id     |-> cell_id,
         slot_idx    |-> slot_idx,
         symbol_idx  |-> symbol_idx,
         gold_c_init |-> PdschCInit(cell_id, slot_idx, symbol_idx),
         n_rows      |-> ch.num_rb * Len(ch.positions),
         n_cols      |-> ch.num_symbols]

\* PDSCH._generate_data: the rows dmrs_idx of dmrs_data the placement loop
\* reads, in loop order (rb outer, sc_idx inner), for the resource blocks that
\* have a DMRS symbol inside the allocation
PdschDmrsReads(ch) ==
    IF \E k \in DOMAIN ch.positions : ch.positions[k] < ch.num_symbols
    THEN [n \in 1..(ch.num_rb * (N_SC_PER_RB \div 2)) |-> n - 1]
    ELSE <<>>

\* PDSCH.__init__ -> _generate_data: IndexError at the first read outside
\* dmrs_data, else the channel with its data array filled
PdschGenerateData(ch, cell_id) ==
    LET call  == PdschDmrsCall(ch, cell_id)
        reads == PdschDmrsReads(ch)
        bad   == {n \in DOMAIN reads : reads[n] >= call.n_rows}
    IN  IF bad # {}
        THEN [raised   |-> "IndexError",
              dmrs     |-> call,
              dmrs_idx |-> reads[CHOOSE n \in bad : \A m \in bad : n <= m]]
        ELSE [raised |-> "none", dmrs |-> call, reads |-> reads]

\* slot patterns, cell ids and (start_symbol, num_symbols) of the PDSCHs built
PdschSlotPatterns == {<<0>>, <<1>>, <<0, 1>>, <<1, 0>>}

PdschCellIds == {0, 1007}

PdschAllotments == {<<0, 1>>, <<0, 3>>, <<1, 1>>, <<1, 3>>}

PdschInputs ==
    {[pc |-> "new", start_rb |-> 0, num_rb |-> n, start_symbol |-> sy[1],
      num_symbols |-> sy[2], slot_pattern |-> sp, dmrs_type |-> t,
      cell_id |-> c] :
        n \in 1..NRB, sy \in PdschAllotments, sp \in PdschSlotPatterns,
        t \in {"A", "B"}, c \in PdschCellIds}

PdschInit ==
    /\ grid = EmptyGrid
    /\ chans = <<>>
    /\ last = NoChannel
    /\ result = "none"
    /\ error = NoError
    /\ ncalls = 0
    /\ idx = NoIdx
    /\ gold = NoGold
    /\ dmrs = NoDmrs
    /\ LaterOff
    /\ frame = Off
    /\ qam = Off
    /\ ctrl = Off
    /\ race = Off
    /\ proj = Off
    /\ shared \in PdschInputs

\* the PDSCH under construction, as the builder's add_pdsch asks for it
SharedChannel ==
    PDSCH(shared.start_rb, shared.num_rb, shared.start_symbol,
          shared.num_symbols, shared.slot_pattern,
          get_dmrs_positions(shared.dmrs_type))

\* pdsch = PDSCH(...): the constructor, _generate_data included
ConstructPdsch ==
    /\ shared.pc = "new"
    /\ \E r \in {PdschGenerateData(SharedChannel, shared.cell_id)} :
        shared' = [shared EXCEPT !.pc = IF r.raised = "none" THEN "built"
                                        ELSE "failed"]
                    @@ [out |-> r]
    /\ UNCHANGED <<gridVars, idx, gold, dmrs, laterVars, frame, qam, ctrl, race, proj>>

\* self.grid.add_channel(pdsch)
AddBuiltPdsch ==
    /\ shared.pc = "built"
    /\ \E r \in {add_channel(grid, SharedChannel, chans)} :
        /\ ncalls' = ncalls + 1
        /\ last' = SharedChannel
        /\ grid' = r.grid
        /\ chans' = IF r.grid = grid THEN chans ELSE Append(chans, SharedChannel)
        /\ error' = r.error
        /\ result' = IF r.error = NoError THEN "ok" ELSE "error"
    /\ shared' = [shared EXCEPT !.pc = "added"]
    /\ UNCHANGED <<idx, gold, dmrs, laterVars, frame, qam, ctrl, race, proj>>

PdschNext ==
    \/ ConstructPdsch
    \/ AddBuiltPdsch

SpecPdsch == PdschInit /\ [][PdschNext]_vars

----------------------------------------------------------------------------



(* PDCCH construction (core/channels/pdcch.py) *)

\* sequence of sequences, concatenated in order
RECURSIVE Flatten(_)
Flatten(ss) == IF ss = <<>> THEN <<>> ELSE Head(ss) \o Flatten(Tail(ss))

\* for i, pos in enumerate(positions): for sym in range(num_symbols):
\*     self.data[rb_start + pos, sym] = source[rb * len(positions) + i, sym]
\* as the list of the writes, in loop order (sy - 1 is the code's sym)
PlaceWrites(source, positions, rb, num_symbols) ==
    Flatten([i \in 1..Len(positions) |->
        [sy \in 1..num_symbols |->
            [row     |-> rb * N_SC_PER_RB + positions[i],
             col     |-> sy - 1,
             array   |-> source,
             src_row |-> rb * Len(positions) + (i - 1),
             src_col |-> sy - 1]]])

\* mutant: the payload is placed at every offset of the resource block
PdcchRbWrites_DataEverywhere(rb, num_symbols) ==
    PlaceWrites("dmrs_data", DMRS_POSITIONS, rb, num_symbols)
        \o PlaceWrites("pdcch_data", PyRange(0, N_SC_PER_RB), rb, num_symbols)

\* PDCCH._generate_data: one turn of the loop over rb
PdcchRbWrites(rb, num_symbols) ==
    PlaceWrites("dmrs_data", DMRS_POSITIONS, rb, num_symbols)
        \o PlaceWrites("pdcch_data", DATA_POSITIONS, rb, num_symbols)

\* PDCCH._generate_data: the shapes of dmrs_data and pdcch_data, the writes
\* into self.data in order, and self.data after them (a cell never written
\* keeps the zero of np.zeros)
PdcchGenerateData(num_rb, num_symbols) ==
    LET writes == Flatten([k \in 1..num_rb |-> PdcchRbWrites(k - 1, num_symbols)])
        cells  == (0..(num_rb * N_SC_PER_RB - 1)) \X (0..(num_symbols - 1))
        lastOf(rc) ==
            CHOOSE n \in DOMAIN writes :
                /\ writes[n].row = rc[1] /\ writes[n].col = rc[2]
                /\ \A m \in DOMAIN writes :
                      (writes[m].row = rc[1] /\ writes[m].col = rc[2]) => m <= n
    IN  [dmrs_rows  |-> num_rb * Len(DMRS_POSITIONS),
         pdcch_rows |-> num_rb * Len(DATA_POSITIONS),
         writes     |-> writes,
         data       |-> [rc \in cells |->
                            IF \E n \in DOMAIN writes :
                                   writes[n].row = rc[1] /\ writes[n].col = rc[2]
                            THEN [array |-> writes[lastOf(rc)].array,
                                  row   |-> writes[lastOf(rc)].src_row,
                                  col   |-> writes[lastOf(rc)].src_col]
                            ELSE [array |-> "zero"]]]

\* largest num_rb, num_symbols, start_rb and start_symbol of the PDCCHs built
MaxPdcchRb == 3

MaxPdcchSymbols == 3

MaxPdcchStartRb == 2

MaxPdcchStartSymbol == 2

PdcchInputs ==
    [pc           : {"new"},
     start_rb     : 0..MaxPdcchStartRb,
     num_rb       : 1..MaxPdcchRb,
     start_symbol : 0..MaxPdcchStartSymbol,
     num_symbols  : 1..MaxPdcchSymbols]

PdcchInit ==
    /\ EarlyOff
    /\ LaterOff
    /\ frame = Off
    /\ qam = Off
    /\ shared = Off
    /\ ctrl \in PdcchInputs
    /\ race = Off
    /\ proj = Off

\* pdcch = PDCCH(start_rb, num_rb, start_symbol, num_symbols, [0]): the
\* constructor, calculate_indices and _generate_data included
ConstructPdcch ==
    /\ ctrl.pc = "new"
    /\ \E ch \in {PDCCH(ctrl.start_rb, ctrl.num_rb, ctrl.start_symbol,
                        ctrl.num_symbols, <<0>>)} :
        ctrl' = [ctrl EXCEPT !.pc = "done"]
                  @@ [freq_indices |-> ch.freq_indices,
                      out |-> PdcchGenerateData(ctrl.num_rb, ctrl.num_symbols)]
    /\ UNCHANGED <<earlyVars, laterVars, frame, qam, shared, race, proj>>

PdcchNext == ConstructPdcch

SpecPdcch == PdcchInit /\ [][PdcchNext]_vars

----------------------------------------------------------------------------

(* Two add_channel calls on one grid, run by two threads *)

Threads == {1, 2}

\* the channels the two threads hand to the grid
RaceSlotPatterns == {<<0>>, <<0, 1>>}

RaceChannels ==
    UNION {{PDSCH(rb[1], rb[2], sy[1], sy[2], sp, TypeAPositions),
            PDCCH(rb[1], rb[2], sy[1], sy[2], sp),
            PhysicalChannel("CORESET", rb[1], rb[2], sy[1], sy[2], sp)} :
           rb \in Placements, sy \in Allotments, sp \in RaceSlotPatterns}

\* a call that has not started: it is at the first slot of the pattern
NotStarted == [pc |-> "idle", k |-> 1, error |-> NoError]

\* the grid is empty and both channel objects exist; the callers either wrap
\* each add_channel call in one mutual-exclusion section over the grid
\* (guarded) or call it as it is
RaceInit ==
    /\ grid = EmptyGrid
    /\ chans \in {<<a, b>> : a \in RaceChannels, b \in RaceChannels}
    /\ last = NoChannel
    /\ result = "none"
    /\ error = NoError
    /\ ncalls = 0
    /\ idx = NoIdx
    /\ gold = NoGold
    /\ dmrs = NoDmrs
    /\ LaterOff
    /\ frame = Off
    /\ qam = Off
    /\ shared = Off
    /\ ctrl = Off
    /\ proj = Off
    /\ race \in [guarded : BOOLEAN, lock : {0}, call : {[p \in Threads |-> NotStarted]}]

\* the slot the call of thread p is at
RaceTimeIndices(p) ==
    chans[p].time_indices[chans[p].slot_pattern[race.call[p].k]]

\* the caller enters the mutual-exclusion section and calls add_channel
Acquire(p) ==
    /\ race.guarded
    /\ race.call[p].pc = "idle"
    /\ race.lock = 0
    /\ race' = [race EXCEPT !.lock = p, !.call[p].pc = "check"]
    /\ UNCHANGED <<gridVars, idx, gold, dmrs, laterVars, frame, qam, shared, ctrl, proj>>

\* the caller calls add_channel without any guard
Enter(p) ==
    /\ ~race.guarded
    /\ race.call[p].pc = "idle"
    /\ race' = [race EXCEPT !.call[p].pc = "check"]
    /\ UNCHANGED <<gridVars, idx, gold, dmrs, laterVars, frame, qam, shared, ctrl, proj>>

\* add_channel, the conflict loop of the current slot: it raises at the
\* first RE that refuses the channel (the caller's section ends with it)
CheckSlot(p) ==
    /\ race.call[p].pc = "check"
    /\ \E bad \in {Refusing(grid, chans[p], chans, RaceTimeIndices(p))} :
        IF bad # {}
        THEN LET ab == FirstRefusing(bad)
                 i  == chans[p].freq_indices[ab[1]]
                 j  == RaceTimeIndices(p)[ab[2]]
             IN  race' = [race EXCEPT
                            !.lock = IF @ = p THEN 0 ELSE @,
                            !.call[p].pc = "raised",
                            !.call[p].error =
                                ConflictError(chans[p], i, j,
                                              channel_type(grid[<<i, j>>], chans))]
        ELSE race' = [race EXCEPT !.call[p].pc = "write"]
    /\ UNCHANGED <<gridVars, idx, gold, dmrs, laterVars, frame, qam, shared, ctrl, proj>>

\* add_channel, the write loop of the current slot, then the next slot or
\* the return (the caller's section ends with it)
WriteSlotOf(p) ==
    /\ race.call[p].pc = "write"
    /\ grid' = WriteSlot(grid, chans[p], p, RaceTimeIndices(p))
    /\ race' = IF race.call[p].k < Len(chans[p].slot_pattern)
               THEN [race EXCEPT !.call[p].pc = "check", !.call[p].k = @ + 1]
               ELSE [race EXCEPT !.lock = IF @ = p THEN 0 ELSE @,
                                 !.call[p].pc = "returned"]
    /\ UNCHANGED <<chans, last, result, error, ncalls, idx, gold, dmrs,
                   laterVars, frame, qam, shared, ctrl, proj>>

RaceNext ==
    \E p \in Threads :
        \/ Acquire(p)
        \/ Enter(p)
        \/ CheckSlot(p)
        \/ WriteSlotOf(p)

SpecRace == RaceInit /\ [][RaceNext]_vars

----------------------------------------------------------------------------



----------------------------------------------------------------------------
(* Allocation followed by reading the grid back as full 2D arrays *)

\* grid.channel_types: the array is built from the REs and handed back
ReadChannelTypes ==
    /\ proj' = [pc |-> "channel_types", out |-> channel_types]
    /\ UNCHANGED <<earlyVars, laterVars, frame, qam, shared, ctrl, race>>

\* grid.values: the array is built from the REs and handed back
ReadValues ==
    /\ proj' = [pc |-> "values", out |-> values]
    /\ UNCHANGED <<earlyVars, laterVars, frame, qam, shared, ctrl, race>>

ProjNext ==
    \/ AddCoreset
    \/ AddPdcch
    \/ AddPdsch
    \/ AddRegion
    \/ ReadChannelTypes
    \/ ReadValues

SpecProj == Init /\ [][ProjNext]_vars


(* Claims about the resource grid *)

\* the REs a channel targets: freq_indices x time_indices[s], s in slot_pattern
Footprint(ch) ==
    UNION {Range(ch.freq_indices) \X Range(ch.time_indices[s]) :
              s \in Range(ch.slot_pattern)}

\* the last step was an add_channel call
Called == ncalls' = ncalls + 1

\* the occupancy rule for one RE of the grid before the call
Admits(cell, ch) ==
    \/ channel_type(grid[cell], chans) = "EMPTY"
    \/ /\ channel_type(grid[cell], chans) = "CORESET"
       /\ ch.channel_type = "PDCCH"

\* C1: a call that fails with a resource conflict leaves the grid exactly as
\* it was before the call (no RE changed), also when the conflict lies in a
\* later slot of the pattern.
C1_FailedCallLeavesGrid ==
    [][(Called /\ result' = "error") => grid' = grid]_vars

\* C2: a call succeeds only if every RE of the incoming channel's footprint
\* is EMPTY, or is CORESET while the incoming channel is PDCCH; any other
\* overlap with an occupied RE makes the call fail.
C2_OccupancyRule ==
    [][Called =>
        /\ (result' = "ok" => \A cell \in Footprint(last') : Admits(cell, last'))
        /\ ((\E cell \in Footprint(last') : ~Admits(cell, last'))
                => result' = "error")]_vars

\* C2 witness: a PDCCH was accepted on top of REs a CORESET channel owned
C2_Witness ==
    /\ result = "ok"
    /\ ncalls = 2
    /\ Len(chans) = 2
    /\ chans[1].channel_type = "CORESET"
    /\ chans[2].channel_type = "PDCCH"
    /\ Footprint(chans[2]) \subseteq Footprint(chans[1])
    /\ \A cell \in Footprint(chans[2]) : grid[cell].channel = 2

\* the placement fields of two channels agree
SamePlacement(a, b) ==
    /\ a.start_rb = b.start_rb
    /\ a.num_rb = b.num_rb
    /\ a.start_symbol = b.start_symbol
    /\ a.num_symbols = b.num_symbols
    /\ a.slot_pattern = b.slot_pattern

\* the footprint of ch is wholly owned by a CORESET allocated with the same
\* placement
OnCoresetOfSamePlacement(ch) ==
    \E k \in DOMAIN chans :
        /\ chans[k].channel_type = "CORESET"
        /\ SamePlacement(chans[k], ch)
        /\ \A cell \in Footprint(ch) : grid[cell].channel = k

\* C3: after a CORESET, a PDCCH on the identical footprint is accepted in
\* every RE (the offsets {1,5,9} included), and a second CORESET on that
\* footprint is refused.
C3_PdcchOverlaysCoreset ==
    [][(Called /\ OnCoresetOfSamePlacement(last')) =>
        /\ (last'.channel_type = "PDCCH" => result' = "ok")
        /\ (last'.channel_type = "CORESET" => result' = "error")]_vars

\* C4: after a successful call every RE (i, j) of the footprint is owned by
\* the channel and reads back channel.data[i - min(freq_indices),
\* j - min(time_indices[s])], in every slot s of the pattern.
C4_ReadBack ==
    result = "ok" =>
        /\ chans # <<>>
        /\ chans[Len(chans)] = last
        /\ \A s \in Range(last.slot_pattern) :
             \A i \in Range(last.freq_indices) :
               \A j \in Range(last.time_indices[s]) :
                 /\ grid[<<i, j>>].channel = Len(chans)
                 /\ values[<<i, j>>] =
                      [owner |-> Len(chans),
                       cell  |-> ChannelData(last,
                                    i - SeqMin(last.freq_indices),
                                    j - SeqMin(last.time_indices[s]))]

\* C4 witness: a channel was accepted in two slots, away from subcarrier 0
\* and symbol 0
C4_Witness ==
    /\ result = "ok"
    /\ Len(last.slot_pattern) = 2
    /\ last.start_rb > 0
    /\ last.start_symbol > 0
    /\ last.channel_type = "PDCCH"

C6_ConflictIdentified ==
    [][(Called /\ result' = "error") =>
        /\ error'.kind = "ValueError"
        /\ \E cell \in Footprint(last') :
             /\ ~Admits(cell, last')
             /\ error'.rb = cell[1] \div N_SC_PER_RB
             /\ error'.symbol = cell[2]
             /\ error'.existing = channel_types[cell]]_vars

\* C6 witness: a call was rejected at an RE of the second resource block and
\* of the second slot
C6_Witness ==
    /\ result = "error"
    /\ error.rb = 1
    /\ error.symbol >= N_SYMBOLS_PER_SLOT
    /\ error.existing = "DL_DMRS"

----------------------------------------------------------------------------
(* Claims about the placement indices *)

\* C7: for the base class and for the PDCCH override, freq_indices is the
\* ascending contiguous range [start_rb*12, (start_rb+num_rb)*12) and, for
\* every slot s of the pattern, time_indices[s] is
\* [start_symbol + 14*s, start_symbol + 14*s + num_symbols).
C7_Indices ==
    idx.pc = "done" =>
        /\ Len(idx.freq_indices) = idx.num_rb * 12
        /\ \A k \in 1..(idx.num_rb * 12) :
             idx.freq_indices[k] = idx.start_rb * 12 + (k - 1)
        /\ DOMAIN idx.time_indices = Range(idx.slot_pattern)
        /\ \A s \in Range(idx.slot_pattern) :
             /\ Len(idx.time_indices[s]) = idx.num_symbols
             /\ \A k \in 1..idx.num_symbols :
                  idx.time_indices[s][k] = idx.start_symbol + 14 * s + (k - 1)

\* C7 witness: a PDCCH placed away from RB 0 and symbol 0, over two RBs and
\* two slots, has its indices calculated
C7_Witness ==
    /\ idx.pc = "done"
    /\ idx.variant = "PDCCH"
    /\ idx.start_rb > 0
    /\ idx.num_rb > 1
    /\ idx.start_symbol > 0
    /\ Len(idx.slot_pattern) = 2
    /\ idx.slot_pattern[1] > idx.slot_pattern[2]

----------------------------------------------------------------------------
(* Claims about the Gold sequence and the PDSCH DMRS seed *)

\* the number whose bit i is x[i + 1], for the first n entries of x
RECURSIVE BitsValue(_, _)
BitsValue(x, n) ==
    IF n = 0 THEN 0 ELSE BitsValue(x, n - 1) + x[n] * 2 ^ (n - 1)

\* C8: generate_gold_sequence(c_init, L) returns exactly L bits
\* c(n) = (x1(n+1600) + x2(n+1600)) mod 2, where x1(0) = 1, x1(1..30) = 0,
\* x2(i) = bit i of c_init, x1(n+31) = (x1(n+3) + x1(n)) mod 2 and
\* x2(n+31) = (x2(n+3) + x2(n+2) + x2(n+1) + x2(n)) mod 2.
\* (Sequences are 1-based here: x(n) is x[n + 1].)
C8_GoldSequence ==
    gold.pc = "first" =>
        /\ Len(gold.gold_seq) = gold.length
        /\ Len(gold.x1) = 1600 + gold.length
        /\ Len(gold.x2) = 1600 + gold.length
        /\ gold.x1[1] = 1
        /\ \A n \in 1..30 : gold.x1[n + 1] = 0
        /\ \A n \in 0..30 : gold.x2[n + 1] \in {0, 1}
        /\ BitsValue(gold.x2, 31) = gold.c_init
        /\ \A n \in 0..(1600 + gold.length - 32) :
             /\ gold.x1[n + 31 + 1] = (gold.x1[n + 3 + 1] + gold.x1[n + 1]) % 2
             /\ gold.x2[n + 31 + 1] =
                  (gold.x2[n + 3 + 1] + gold.x2[n + 2 + 1]
                     + gold.x2[n + 1 + 1] + gold.x2[n + 1]) % 2
        /\ \A n \in 0..(gold.length - 1) :
             gold.gold_seq[n + 1] =
                 (gold.x1[n + 1600 + 1] + gold.x2[n + 1600 + 1]) % 2

\* C8 witness: a sequence of at least nine bits was generated from a seed
\* with zero and one bits
C8_Witness ==
    /\ gold.pc = "first"
    /\ gold.length >= 9
    /\ gold.c_init = 305419896
    /\ \E n \in 1..gold.length : gold.gold_seq[n] = 1
    /\ \E n \in 1..gold.length : gold.gold_seq[n] = 0

\* C9 as claimed: for every output length L >= 1, flipping any single bit of
\* c_init changes the generated sequence.
C9_AnyLengthSensitive ==
    (gold.pc = "second" /\ gold.length >= 1) => gold.flipped_seq # gold.gold_seq

\* C9 amended: for every output length L >= 9, flipping any single bit of
\* c_init changes the generated sequence.
C9_LongSensitive ==
    (gold.pc = "second" /\ gold.length >= 9) => gold.flipped_seq # gold.gold_seq

\* C9 witness: bit 0 of the seed was flipped and nine bits or more generated;
\* the two outputs agree on their first eight bits
C9_Witness ==
    /\ gold.pc = "second"
    /\ gold.length >= 9
    /\ gold.bit = 0
    /\ \A n \in 1..8 : gold.flipped_seq[n] = gold.gold_seq[n]

\* C10: the PDSCH DMRS seed is
\* (2^17 * (14*slot + symbol + 1) * (2*cell_id + 1) + 2*cell_id) mod 2^31,
\* a value in [0, 2^31), and the Gold sequence is generated from that seed
\* with length 2 * num_rb * len(positions) * num_symbols.
\* (2*cell_id < 2^17, so the seed's low 17 bits are 2*cell_id and its upper
\* 14 bits are the low 14 bits of (14*slot + symbol + 1) * (2*cell_id + 1).)
C10_PdschSeed ==
    dmrs.pc = "done" =>
        /\ dmrs.gold_c_init \in 0..2147483647
        /\ dmrs.gold_c_init % 131072 = 2 * dmrs.cell_id
        /\ dmrs.gold_c_init \div 131072 =
             ((14 * dmrs.slot_idx + dmrs.symbol_idx + 1) * (2 * dmrs.cell_id + 1))
                 % 16384
        /\ dmrs.gold_length =
             2 * dmrs.num_rb * Len(dmrs.positions) * dmrs.num_symbols
        /\ Len(dmrs.binary_seq) = dmrs.gold_length

\* C10 witness: a seed whose product exceeds 31 bits before the reduction
C10_Witness ==
    /\ dmrs.pc = "done"
    /\ dmrs.cell_id = 1007
    /\ (14 * dmrs.slot_idx + dmrs.symbol_idx + 1) * (2 * dmrs.cell_id + 1) >= 16384
    /\ dmrs.symbol_idx = 13

----------------------------------------------------------------------------
(* Claims about the PBCH DMRS seed *)

\* C11: the PBCH DMRS seed uses i_ssb = ssb_index + 4*half_frame when
\* ssb_index <= 3 and ssb_index + 8*half_frame otherwise, and
\* c_init = (2^11 * (i_ssb+1) * (cell_id div 4 + 1) + 2^6 * (i_ssb+1)
\*           + cell_id mod 4) mod 2^31.
\* (The sum stays below 2^31 over the whole domain, so the reduction leaves
\* it as it is.)
C11_PbchSeed ==
    pbch.pc = "done" =>
        \E i_ssb \in {pbch.ssb_index + (IF pbch.ssb_index <= 3 THEN 4 ELSE 8)
                                          * pbch.half_frame} :
            /\ 2048 * (i_ssb + 1) * (pbch.cell_id \div 4 + 1)
                 + 64 * (i_ssb + 1) + (pbch.cell_id % 4) <= 2147483647
            /\ pbch.gold_c_init =
                 2048 * (i_ssb + 1) * (pbch.cell_id \div 4 + 1)
                   + 64 * (i_ssb + 1) + (pbch.cell_id % 4)

\* C11 witness: seeds were generated in the second half frame on both sides
\* of ssb_index = 3, for the largest cell id
C11_Witness ==
    /\ pbch.pc = "done"
    /\ pbch.half_frame = 1
    /\ pbch.cell_id = 1007
    /\ pbch.ssb_index = 4
    /\ pbch.gold_c_init = 2048 * 13 * 252 + 64 * 13 + 3

\* C12 as claimed: the seed for cell_id = 0, ssb_index = 0, half_frame = 0
\* is 0.
C12_SeedZero ==
    (pbch.pc = "done" /\ pbch.cell_id = 0 /\ pbch.ssb_index = 0
        /\ pbch.half_frame = 0) => pbch.gold_c_init = 0

\* C12 amended: the seed for cell_id = 0, ssb_index = 0, half_frame = 0 is
\* 2^11 + 2^6 = 2112, the value of the closed-form formula.
C12_SeedOfZeroInputs ==
    (pbch.pc = "done" /\ pbch.cell_id = 0 /\ pbch.ssb_index = 0
        /\ pbch.half_frame = 0) => pbch.gold_c_init = 2112

\* C12 witness: the seed for cell_id = 0, ssb_index = 0, half_frame = 0 was
\* computed and handed to the Gold-sequence generator
C12_Witness ==
    /\ pbch.pc = "done"
    /\ pbch.cell_id = 0
    /\ pbch.ssb_index = 0
    /\ pbch.half_frame = 0
    /\ Len(pbch.binary_seq) = 6

----------------------------------------------------------------------------
(* Claims about the QPSK mapping *)

\* the part of a symbol that the bit b gives, in units of 1/sqrt(2)
SignOf(b) == IF b = 0 THEN 1 ELSE -1

\* |s|^2 of a symbol given in units of 1/sqrt(2): (re^2 + im^2) / 2; the
\* numerator is even for every symbol the mapping can give
Power(s) == (s[1] * s[1] + s[2] * s[2]) \div 2

\* C13: map_to_qpsk groups the bits in consecutive pairs: for an even-length
\* sequence b, symbol k has real part +1/sqrt(2) if b[2k] = 0 and -1/sqrt(2)
\* if b[2k] = 1, imaginary part likewise from b[2k+1]; the output has
\* len(b)/2 symbols, each of unit power; an odd-length input is rejected
\* with an error and gives no output.
\* (Sequences are 1-based here: b[2k] is binary_seq[2k + 1].)
C13_QpskPairs ==
    mapq.pc = "done" =>
        IF Len(mapq.binary_seq) % 2 = 0
        THEN /\ mapq.out.raised = "none"
             /\ Len(mapq.out.symbols) = Len(mapq.binary_seq) \div 2
             /\ \A k \in 0..(Len(mapq.binary_seq) \div 2 - 1) :
                  /\ mapq.out.symbols[k + 1][1] = SignOf(mapq.binary_seq[2 * k + 1])
                  /\ mapq.out.symbols[k + 1][2] = SignOf(mapq.binary_seq[2 * k + 2])
                  /\ (mapq.out.symbols[k + 1][1] * mapq.out.symbols[k + 1][1]
                        + mapq.out.symbols[k + 1][2] * mapq.out.symbols[k + 1][2]) % 2 = 0
                  /\ Power(mapq.out.symbols[k + 1]) = 1
        ELSE /\ mapq.out.raised = "ValueError"
             /\ "symbols" \notin DOMAIN mapq.out

\* C13 witness: a sequence of three pairs was mapped whose pairs differ in
\* their first and in their second bit
C13_Witness ==
    /\ mapq.pc = "done"
    /\ mapq.binary_seq = <<0, 1, 1, 0, 1, 1>>
    /\ mapq.out.raised = "none"
    /\ mapq.out.symbols = <<<<1, -1>>, <<-1, 1>>, <<-1, -1>>>>

----------------------------------------------------------------------------
(* Claims about the OFDM parameters *)

\* the call returned parameters
OfdmReturned == ofdm.pc = "done" /\ ofdm.out.raised = "none"

\* sum of N_useful + cp_i over the symbols of one slot of the returned
\* parameters
SlotSamples ==
    SumSamples(ofdm.out.cp_per_symbol, ofdm.out.N_useful,
               ofdm.out.symbols_per_slot)

\* C14: for every (sample rate, numerology, CP type) the call accepts, the
\* sum over the symbols of one slot of N_useful + cp_i is exactly
\* round(fs * 1 ms / 2^mu).
\* (fs is a multiple of 15000 * 2^mu when the call returns, so fs / (1000 *
\* 2^mu) is an integer and the rounding leaves it as it is.)
C14_SlotSamplesExact ==
    OfdmReturned =>
        /\ ofdm.fs_hz % (1000 * (2 ^ ofdm.mu)) = 0
        /\ SlotSamples = ofdm.fs_hz \div (1000 * (2 ^ ofdm.mu))

\* C15: for mu = 1 and 11.52 MHz the call returns N_useful = 384 and
\* N_fft = 512, the 14 symbols of a slot sum to exactly 5760 samples, and
\* the CP of symbol 0 is strictly the largest of the slot.
C15_Reference1152 ==
    (ofdm.pc = "done" /\ ofdm.fs_hz = 11520000 /\ ofdm.mu = 1
        /\ ofdm.cp_type = "normal" /\ ofdm.custom_fft_size = <<>>) =>
        /\ ofdm.out.raised = "none"
        /\ ofdm.out.N_useful = 384
        /\ ofdm.out.N_fft = 512
        /\ ofdm.out.symbols_per_slot = 14
        /\ DOMAIN ofdm.out.cp_per_symbol = 0..13
        /\ SlotSamples = 5760
        /\ \A i \in 1..13 : ofdm.out.cp_per_symbol[0] > ofdm.out.cp_per_symbol[i]

\* C15 witness: the parameters for mu = 1 and 11.52 MHz were returned, with
\* three samples of padding spread over symbols 0, 13 and 12
C15_Witness ==
    /\ OfdmReturned
    /\ ofdm.fs_hz = 11520000
    /\ ofdm.mu = 1
    /\ ofdm.cp_type = "normal"
    /\ ofdm.custom_fft_size = <<>>
    /\ ofdm.out.cp_per_symbol[0] = ofdm.out.cp_long + 1
    /\ ofdm.out.cp_per_symbol[13] = ofdm.out.cp_short + 1
    /\ ofdm.out.cp_per_symbol[12] = ofdm.out.cp_short + 1
    /\ ofdm.out.cp_per_symbol[11] = ofdm.out.cp_short

\* n is a power of two
IsPowerOfTwo(n) == \E e \in 0..30 : n = 2 ^ e

----------------------------------------------------------------------------
(* Claims about the bandwidth table and the carrier configuration *)

\* C17: for every (bandwidth, mu) pair the table lists, get_rb_count returns
\* the RB count tabulated for the pair, in whichever section of the table it
\* is listed; for every other pair it fails with the configuration error;
\* from_bandwidth uses that count as the carrier's number of resource blocks.
C17_TableLookup ==
    /\ (carrier.pc = "done" /\ carrier.op = "get_rb_count") =>
         /\ \A k \in DOMAIN RB_TABLE_Listing :
              (RB_TABLE_Listing[k][1] = carrier.bandwidth_mhz
                 /\ RB_TABLE_Listing[k][2] = carrier.mu)
              => (carrier.out.raised = "none"
                    /\ carrier.out.value = RB_TABLE_Listing[k][3])
         /\ (~\E k \in DOMAIN RB_TABLE_Listing :
                 RB_TABLE_Listing[k][1] = carrier.bandwidth_mhz
                   /\ RB_TABLE_Listing[k][2] = carrier.mu)
              => carrier.out.raised = "ValueError"
    /\ (carrier.pc = "done" /\ carrier.op = "from_bandwidth"
          /\ carrier.out.raised = "none") =>
         \E k \in DOMAIN RB_TABLE_Listing :
              /\ RB_TABLE_Listing[k][1] = carrier.bandwidth_mhz
              /\ RB_TABLE_Listing[k][2] = carrier.mu
              /\ carrier.out.n_size_grid = RB_TABLE_Listing[k][3]

\* C18: constructing a CarrierConfig with a cyclic prefix outside {normal,
\* extended} or with a cell id outside [0, 1007] fails with the validation
\* error and gives no configuration; every cell id in 0..1007 with a valid
\* cyclic prefix is accepted.
C18_CarrierValidation ==
    (carrier.pc = "done" /\ carrier.op = "CarrierConfig") =>
        IF \/ carrier.cyclic_prefix \notin {"normal", "extended"}
           \/ carrier.n_cell_id \notin 0..1007
        THEN /\ carrier.out.raised = "ValueError"
             /\ "n_cell_id" \notin DOMAIN carrier.out
        ELSE carrier.out.raised = "none"

----------------------------------------------------------------------------
(* Claims about the waveform *)

C20_SymbolWithPrefix ==
    (sym.pc = "done" /\ sym.out.raised = "none") =>
        LET cp       == sym.ofdm_params.cp_per_symbol[sym.symbol_idx]
            N_useful == sym.ofdm_params.N_useful
            first    == (sym.ofdm_params.N_fft - N_useful) \div 2
        IN  /\ cp >= 0
            /\ Len(sym.out.samples) = N_useful + cp
            /\ \A k \in 1..N_useful : sym.out.samples[cp + k] = first + (k - 1)
            /\ \A k \in 1..cp :
                 sym.out.samples[k] = first + N_useful - cp + (k - 1)

----------------------------------------------------------------------------
(* Claims about the frame waveform *)

\* the OFDM parameters of the carrier's own CP type at the standard rate
CarrierCpParams ==
    calculate_ofdm_params(FrameConfig.sample_rate, frame.mu,
                          frame.cyclic_prefix, <<>>)

\* the carrier's CP type is one the numerology allows
FrameCpAllowed ==
    \/ frame.cyclic_prefix = "normal"
    \/ frame.cyclic_prefix = "extended" /\ frame.mu = 2

----------------------------------------------------------------------------
(* Claims about the modulation *)

\* the bits of val, least significant first
BitsLsbFirst(val, n) == [k \in 1..n |-> BitAt(val, k - 1)]

\* the odd integers -(m - 1) .. (m - 1)
OddCoordinates(m) == {c \in (1 - m)..(m - 1) : c % 2 = 1}

\* the side of the square constellation of order M
Side(M) == CHOOSE m \in 1..16 : m * m = M

\* C22: for M in {4, 16, 64, 256} generate_random_symbols maps the drawn
\* integers 0..M-1 one-to-one onto the M points of the constellation with
\* odd-integer I/Q coordinates; for 64-QAM and 256-QAM the result equals
\* map_qam64 / map_qam256 applied to the integer's bits, least significant
\* bit first.
C22_RandomSymbols ==
    (qam.pc = "done" /\ qam.out.raised = "none") =>
        LET M == ModulationOrder(qam.modulation)
        IN  \A rc \in DOMAIN qam.out.symbols :
                LET val == qam.random_ints[rc[1] * qam.n_symbols + rc[2] + 1]
                    s   == qam.out.symbols[rc]
                IN  /\ s[1] \in OddCoordinates(Side(M))
                    /\ s[2] \in OddCoordinates(Side(M))
                    /\ \A w \in 0..(M - 1) :
                          w # val => RandomSymbol(qam.modulation, w) # s
                    /\ qam.modulation = "QAM64" =>
                          s = map_qam64(BitsLsbFirst(val, 6))
                    /\ qam.modulation = "QAM256" =>
                          s = map_qam256(BitsLsbFirst(val, 8))

----------------------------------------------------------------------------
(* Claims about the reconciliation of the slot length *)

\* the long-CP symbols of a slot
LongSymbols(mu) == IF mu = 0 THEN {0, 7} ELSE {0}

\* the short-CP symbols of a slot
ShortSymbols(mu) == (0..13) \ LongSymbols(mu)

\* the order in which a deficit is handed out: the long-CP symbols, then the
\* short-CP symbols from symbol 13 downward
HandOutOrder(mu) ==
    (IF mu = 0 THEN <<0, 7>> ELSE <<0>>)
        \o SelectSeq(<<13, 12, 11, 10, 9, 8, 7, 6, 5, 4, 3, 2, 1>>,
                     LAMBDA i : i \in ShortSymbols(mu))

\* the samples symbol i receives when d samples are handed out in that order,
\* cycling
HandedOut(mu, d, i) ==
    Cardinality({j \in 0..(d - 1) : HandOutOrder(mu)[(j % 14) + 1] = i})

\* the CP of symbol i before the reconciliation
CpBefore(i) ==
    IF i \in LongSymbols(ofdm.mu) THEN ofdm.out.cp_long ELSE ofdm.out.cp_short

\* what the reconciliation took from symbol i
Shortened(i) == CpBefore(i) - ofdm.out.cp_per_symbol[i]

\* target minus the samples of the slot before the reconciliation
SlotDeficit ==
    15 * ofdm.out.N_useful
      - (14 * ofdm.out.N_useful
           + Cardinality(LongSymbols(ofdm.mu)) * ofdm.out.cp_long
           + Cardinality(ShortSymbols(ofdm.mu)) * ofdm.out.cp_short)

\* C23: in normal-CP reconciliation a deficit of d > 0 samples is handed out
\* one sample at a time first to the long-CP symbols (symbol 0, plus symbol 7
\* when mu = 0) and then to the short-CP symbols from symbol 13 downward,
\* cycling; a surplus is removed one sample at a time from the short-CP
\* symbols in reverse order (symbol 13 downward), so no long-CP symbol is
\* shortened before every short-CP symbol has been shortened in that round.
C23_Reconciliation ==
    (OfdmReturned /\ ofdm.cp_type = "normal") =>
        /\ SlotDeficit > 0 =>
             \A i \in 0..13 :
                ofdm.out.cp_per_symbol[i] =
                    CpBefore(i) + HandedOut(ofdm.mu, SlotDeficit, i)
        /\ SlotDeficit < 0 =>
             /\ \A i \in 0..13 : Shortened(i) >= 0
             /\ Shortened(0) + Shortened(1) + Shortened(2) + Shortened(3)
                  + Shortened(4) + Shortened(5) + Shortened(6) + Shortened(7)
                  + Shortened(8) + Shortened(9) + Shortened(10) + Shortened(11)
                  + Shortened(12) + Shortened(13) = -SlotDeficit
             /\ \A i, j \in ShortSymbols(ofdm.mu) :
                    i < j => /\ Shortened(j) >= Shortened(i)
                             /\ Shortened(j) - Shortened(i) <= 1
             /\ \A l \in LongSymbols(ofdm.mu), i \in ShortSymbols(ofdm.mu) :
                    Shortened(l) <= Shortened(i)
        /\ SlotDeficit = 0 =>
             \A i \in 0..13 : ofdm.out.cp_per_symbol[i] = CpBefore(i)

\* C23 witness: at mu = 0 a surplus was removed from the symbols 13 down to 8,
\* next to the long-CP symbol 7, which kept its CP
C23_Witness ==
    /\ OfdmReturned
    /\ ofdm.cp_type = "normal"
    /\ ofdm.mu = 0
    /\ SlotDeficit = -6
    /\ Shortened(8) = 1
    /\ Shortened(7) = 0
    /\ Shortened(6) = 0

----------------------------------------------------------------------------
(* Claims about the subcarriers of one OFDM symbol *)

\* C24: generate_ofdm_symbol centres freq_data in the N_fft-length buffer and
\* applies an FFT shift before the inverse transform, so that input
\* subcarrier k is fed to inverse-transform bin (k - len/2) mod N_fft: the
\* centre subcarrier lands on bin 0, for every even len <= N_fft.
C24_ShiftedBins ==
    (sym.pc = "done" /\ sym.out.raised = "none" /\ sym.n_data % 2 = 0) =>
        LET N_fft == sym.ofdm_params.N_fft
            fed   == padded_data(sym.n_data, sym.ofdm_params)
        IN  /\ \A k \in 0..(sym.n_data - 1) :
                  fed[(k - sym.n_data \div 2) % N_fft] = k
            /\ fed[0] = sym.n_data \div 2

----------------------------------------------------------------------------
(* Claims about the PDSCH and its DMRS *)

\* the DMRS-bearing symbols of the allocation, counted from its first symbol
DmrsSymbols(ch) ==
    {l \in 0..(ch.num_symbols - 1) : InSeq(l, ch.positions)}

----------------------------------------------------------------------------
(* Claims about the PDCCH data array *)

\* the number of writes into data[r, c]
TimesWritten(r, c) ==
    Cardinality({n \in DOMAIN ctrl.out.writes :
                    ctrl.out.writes[n].row = r /\ ctrl.out.writes[n].col = c})

\* the rank of offset x among the offsets of its kind, in ascending order
RankAmong(x, offsets) == Cardinality({y \in offsets : y < x})

\* C26: a PDCCH's data array is fully populated: each of the
\* num_rb*12 x num_symbols cells is written exactly once, the cells at the
\* intra-RB offsets {1,5,9} from the reference-signal array at row rb*3 + i
\* and the cells at the nine other offsets from the payload array at row
\* rb*9 + i, the two offset sets being disjoint and together covering 0..11.
C26_PdcchFullyPopulated ==
    ctrl.pc = "done" =>
        LET rs      == {1, 5, 9}
            payload == {0, 2, 3, 4, 6, 7, 8, 10, 11}
        IN  /\ Range(DMRS_POSITIONS) = rs
            /\ Range(DATA_POSITIONS) = payload
            /\ rs \cap payload = {}
            /\ rs \cup payload = 0..11
            /\ DOMAIN ctrl.out.data =
                 (0..(ctrl.num_rb * 12 - 1)) \X (0..(ctrl.num_symbols - 1))
            /\ \A n \in DOMAIN ctrl.out.writes :
                 <<ctrl.out.writes[n].row, ctrl.out.writes[n].col>>
                     \in DOMAIN ctrl.out.data
            /\ \A rc \in DOMAIN ctrl.out.data :
                 LET rb  == rc[1] \div 12
                     pos == rc[1] % 12
                 IN  /\ TimesWritten(rc[1], rc[2]) = 1
                     /\ pos \in rs =>
                          /\ ctrl.out.data[rc] =
                               [array |-> "dmrs_data",
                                row   |-> rb * 3 + RankAmong(pos, rs),
                                col   |-> rc[2]]
                          /\ rb * 3 + RankAmong(pos, rs) < ctrl.out.dmrs_rows
                     /\ pos \in payload =>
                          /\ ctrl.out.data[rc] =
                               [array |-> "pdcch_data",
                                row   |-> rb * 9 + RankAmong(pos, payload),
                                col   |-> rc[2]]
                          /\ rb * 9 + RankAmong(pos, payload) < ctrl.out.pdcch_rows

\* C26 witness: a PDCCH of several resource blocks and symbols was built, and
\* the last cell at a reference-signal offset holds the last reference value
C26_Witness ==
    /\ ctrl.pc = "done"
    /\ ctrl.num_rb = 3
    /\ ctrl.num_symbols = 2
    /\ Len(ctrl.out.writes) = 72
    /\ ctrl.out.data[<<33, 1>>] = [array |-> "dmrs_data", row |-> 8, col |-> 1]

----------------------------------------------------------------------------
(* Claims about concurrent allocation *)

\* the two channels target a common RE
RaceOverlap == Footprint(chans[1]) \cap Footprint(chans[2])

\* neither channel may be laid over the other: no PDCCH beside a CORESET
RaceNonOverlay ==
    ~\E p, q \in Threads :
        chans[p].channel_type = "PDCCH" /\ chans[q].channel_type = "CORESET"

\* both calls returned without raising
BothReturned == \A p \in Threads : race.call[p].pc = "returned"

\* C27: conflict checking and writing in add_channel are not atomic as a
\* pair.  When two calls for channels with overlapping, non-overlay
\* footprints interleave without mutual exclusion, both can pass the conflict
\* check and both write, an RE ending up owned by the later writer although
\* neither call failed (the witness); when each call runs inside one
\* mutual-exclusion section over the whole grid, at most one of the two calls
\* succeeds: two successful calls are seen only where the callers use no guard.
C27_CheckThenWriteNotAtomic ==
    (BothReturned /\ RaceOverlap # {} /\ RaceNonOverlay) => ~race.guarded

\* C27 witness: without a guard both calls returned, and every RE they share
\* is owned by thread 2's channel, which wrote last on it
C27_Witness ==
    /\ ~race.guarded
    /\ BothReturned
    /\ RaceNonOverlay
    /\ RaceOverlap # {}
    /\ \A cell \in RaceOverlap : grid[cell].channel = 2
    /\ \E cell \in Footprint(chans[1]) : grid[cell].channel = 1

----------------------------------------------------------------------------
(* Claims about the owner of an RE over a sequence of calls *)

\* the type of the channel that owns the RE ("EMPTY" for none)
OwnerType(re, tbl) ==
    IF re.channel = 0 THEN "EMPTY" ELSE tbl[re.channel].channel_type

\* C28: across any sequence of serialized add_channel calls (successful or
\* failed) an RE's owner changes only from EMPTY to the incoming channel or
\* from a CORESET to a PDCCH; once an RE is owned by a channel that is not a
\* CORESET, its owner, its local offsets and the value read back for it never
\* change again.
C28_OwnerChanges ==
    [][\A cell \in DOMAIN grid :
          /\ grid'[cell].channel # grid[cell].channel =>
                /\ grid'[cell].channel \in DOMAIN chans'
                /\ chans'[grid'[cell].channel] = last'
                /\ \/ OwnerType(grid[cell], chans) = "EMPTY"
                   \/ /\ OwnerType(grid[cell], chans) = "CORESET"
                      /\ last'.channel_type = "PDCCH"
          /\ OwnerType(grid[cell], chans) \notin {"EMPTY", "CORESET"} =>
                /\ grid'[cell] = grid[cell]
                /\ chans'[grid'[cell].channel] = chans[grid[cell].channel]
                /\ re_data(grid'[cell], chans') = re_data(grid[cell], chans)
      ]_vars

\* C28 witness: a call failed in its second slot after writing its first
\* slot on EMPTY REs; the REs of the earlier channel, not a CORESET, which it
\* ran into are still that channel's
C28_Witness ==
    /\ ncalls = 2
    /\ result = "error"
    /\ Len(chans) = 2
    /\ chans[1].channel_type # "CORESET"
    /\ \E cell \in Footprint(chans[2]) : grid[cell].channel = 2
    /\ \E cell \in Footprint(chans[2]) :
          /\ cell \in Footprint(chans[1])
          /\ grid[cell] = WrittenRE(1, cell[1], cell[2],
                                    SeqMin(chans[1].freq_indices),
                                    SeqMin(chans[1].time_indices[cell[2] \div 14]))

----------------------------------------------------------------------------
(* Claims about what a successful call and a read leave alone *)

\* the step was one of the two projection reads
ReadBack == ncalls' = ncalls /\ proj'.pc # "off"

\* C30: a successful add_channel(channel) changes only REs (i, j) with i in
\* channel.freq_indices and j in channel.time_indices[s] for some s in
\* slot_pattern: every other RE keeps its owner, local offsets, channel-type
\* tag and value, the channel's own data array is not modified, and reading
\* the channel_types or values projections afterwards changes nothing in the
\* grid.
C30_OnlyFootprintChanges ==
    [][/\ (Called /\ result' = "ok") =>
            /\ \A cell \in DOMAIN grid \ Footprint(last') :
                  /\ grid'[cell] = grid[cell]
                  /\ channel_type(grid'[cell], chans') =
                        channel_type(grid[cell], chans)
                  /\ re_data(grid'[cell], chans') = re_data(grid[cell], chans)
            /\ \A k \in DOMAIN chans : chans'[k] = chans[k]
            /\ chans'[Len(chans')] = last'
            /\ \A r \in 0..(last'.num_rb * N_SC_PER_RB - 1),
                  c \in 0..(last'.num_symbols - 1) :
                  ChannelData(chans'[Len(chans')], r, c) = ChannelData(last', r, c)
       /\ ReadBack =>
            /\ grid' = grid
            /\ chans' = chans
            /\ proj'.pc = "channel_types" => proj'.out = channel_types
            /\ proj'.pc = "values" => proj'.out = values
      ]_vars

\* C30 witness: the second call succeeded next to the first channel, whose
\* REs lie outside the second channel's footprint, and the values were read
\* back afterwards
C30_Witness ==
    /\ ncalls = 2
    /\ result = "ok"
    /\ Len(chans) = 2
    /\ \E cell \in DOMAIN grid \ Footprint(last) : grid[cell].channel = 1
    /\ \E cell \in Footprint(last) : grid[cell].channel = 2
    /\ proj = [pc |-> "values", out |-> values]

====
